---- MODULE Spec2Model ----
(***************************************************************************)
(* Delegation lifecycle coordinator of opencode-async-agent.               *)
(*                                                                         *)
(* The model follows DelegationManager as it stands in                     *)
(* src/src/plugin/plugin.ts lines 947-1603 (the manager that the tools of  *)
(* src/src/plugin/tools.ts drive).  Every `await` of a manager method is a *)
(* suspension point: the method is cut there into separate actions, and    *)
(* other operations may run in between.  An await that separates no two    *)
(* accesses to manager state is merged with the step next to it.           *)
(*                                                                         *)
(* Dates are abstracted to the number of the run they were taken in:       *)
(* startedAt is 0 after delegate() and grows by one with every resume().   *)
(* An optional field (completedAt?, error?) is a set with at most one      *)
(* element; the empty set is `undefined`.  title, description and duration *)
(* are derived texts that no transition reads; they are left out, and so   *)
(* are the toasts.  Of progress, lastUpdate tells whether a message event  *)
(* has moved it since the run started, and lastMessage is kept.            *)
(***************************************************************************)
EXTENDS Integers, Sequences, FiniteSets, Bags, TLC

(* ---- bounds ---- *)
MaxDeleg == 1      \* sessions the remote API hands out
MaxResume == 1     \* successful resume() calls
MaxCalls == 2      \* manager operations suspended at the same time
BatchSize == 2     \* sessions handed out in the batching scenario
BatchCalls == 1    \* operations suspended at the same time in that scenario
LifeDeleg == 1     \* sessions handed out in the lifecycle scenario
LifeResume == 1    \* successful resume() calls in that scenario
LifeCalls == 2     \* operations suspended at the same time in that scenario

Parents == {"p1"}
AgentNames == {"explore", "ghost"}
ErrorMessages == {"prompt failed"}
TimeoutMessage == "Delegation timed out after 900s"
UnknownId == 0

(* what client.app.agents() returns *)
Catalog ==
  { [name |-> "explore", mode |-> "subagent"],
    [name |-> "build", mode |-> "primary"] }

VARIABLES
  delegations,      \* Map<string, Delegation>: session id -> record
  pendingByParent,  \* Map<string, Set<string>>: parent session -> ids
  calls,            \* bag of manager operations suspended at an await
  timers,           \* armed setTimeout callbacks
  prompts,          \* bag of session.prompt calls to delegation sessions
                    \* whose .catch continuation has not run (a prompt
                    \* that resolves runs no code and stays here)
  nextSession,      \* next session id of the remote API
  resumes,          \* number of successful resume() calls so far
  ret,              \* what the last step let its caller observe
  note,             \* the notification the last step sent to a parent
  sent,             \* the notifications sent so far (when logging)
  limits            \* the bounds of the scenario; never changes

vars == << delegations, pendingByParent, calls, timers, prompts, nextSession,
           resumes, ret, note, sent, limits >>

(* ---- helpers ---- *)
MapSet(m, k, v) == [x \in (DOMAIN m) \cup {k} |-> IF x = k THEN v ELSE m[x]]

One(x) == SetToBag({x})

InFlight == BagToSet(calls)

Call(op, pc, id) == [op |-> op, pc |-> pc, id |-> id, agent |-> "none",
                     idleSeen |-> FALSE, other |-> FALSE]

Known == DOMAIN delegations

Ids == Known \cup {UnknownId}

Running(id) == id \in Known /\ delegations[id].status = "running"

StatusOf(id) == IF id \in Known THEN delegations[id].status ELSE "none"

Returned(op, id, arg, was, result) ==
  [op |-> op, id |-> id, arg |-> arg, was |-> was, result |-> result]

NoReturn == Returned("none", UnknownId, "none", "none", "none")

NoNote == [parent |-> "none", id |-> UnknownId, status |-> "none",
           allComplete |-> FALSE, remaining |-> 0, listed |-> {},
           siblings |-> 0, noReply |-> FALSE]

Quiet == note' = NoNote /\ UNCHANGED sent

Free == BagCardinality(calls) < limits.calls

(* ---- DelegationManager.notifyParent ---- *)

(* faulty variant: a set that becomes empty is dropped from the index *)
PendingDeleteDropsEmpty(pend, parent, id) ==
  IF parent \in DOMAIN pend
    THEN IF pend[parent] \ {id} = {}
           THEN [q \in DOMAIN pend \ {parent} |-> pend[q]]
           ELSE [pend EXCEPT ![parent] = @ \ {id}]
    ELSE pend

(* pendingSet.delete(id) on the parent's set, when there is one *)
PendingDelete(pend, parent, id) ==
  IF parent \in DOMAIN pend
    THEN [pend EXCEPT ![parent] = @ \ {id}]
    ELSE pend

(* the digest lists the parent's delegations that are not running *)
CompletedTasks(dels, parent) ==
  {d \in DOMAIN dels :
     dels[d].parentSessionID = parent /\ dels[d].status # "running"}

(* faulty variant: the size is taken before the delete *)
RemainingCountBeforeDelete(pend, parent) ==
  IF parent \in DOMAIN pend THEN Cardinality(pend[parent]) + 1 ELSE 0

(* pendingSet?.size || 0 *)
RemainingCount(pend, parent) ==
  IF parent \in DOMAIN pend THEN Cardinality(pend[parent]) ELSE 0

(* faulty variant: every notification is taken for the last one *)
AllCompleteAlways(pend, parent) == TRUE

(* !pendingSet || pendingSet.size === 0 *)
AllComplete(pend, parent) ==
  (parent \notin DOMAIN pend) \/ pend[parent] = {}

(* the message composed for delegation id, given the pending index as it
   is after the delete; siblings counts the parent's records *)
Notification(dels, pend, id) ==
  LET parent == dels[id].parentSessionID
      listed == CompletedTasks(dels, parent)
  IN [ parent |-> parent,
       id |-> id,
       status |-> dels[id].status,
       allComplete |-> AllComplete(pend, parent),
       remaining |-> RemainingCount(pend, parent),
       listed |-> IF AllComplete(pend, parent)
                    THEN (IF listed = {} THEN {id} ELSE listed)
                    ELSE {},
       siblings |->
         Cardinality({d \in DOMAIN dels : dels[d].parentSessionID = parent}),
       noReply |-> ~AllComplete(pend, parent) ]

(* faulty variant: the id stays in the pending set *)
NotifyParentKeepsPending(dels, id) ==
  /\ UNCHANGED pendingByParent
  /\ note' = Notification(dels, pendingByParent, id)
  /\ sent' = IF limits.logging
               THEN Append(sent, Notification(dels, pendingByParent, id))
               ELSE sent

(* notifyParent(delegation) up to its first await; dels is the delegation
   map with the caller's writes applied *)
NotifyParent(dels, id) ==
  LET pend == PendingDelete(pendingByParent, dels[id].parentSessionID, id)
  IN /\ pendingByParent' = pend
     /\ note' = Notification(dels, pend, id)
     /\ sent' = IF limits.logging
                  THEN Append(sent, Notification(dels, pend, id))
                  ELSE sent

(* ---- DelegationManager.delegate ---- *)

(* agents.find((a) => a.name === input.agent) *)
FindAgent(name) == {a \in Catalog : a.name = name}

(* progress: { toolCalls: 0, lastUpdate: new Date() }, lastMessage unset *)
StartProgress == [lastUpdate |-> "start", lastMessage |-> {}]

(* faulty variant: every record gets the session id of the first one *)
NewDelegationSharedSession(sessionID, parent, agent) ==
  [ id |-> sessionID,
    sessionID |-> 1,
    parentSessionID |-> parent,
    agent |-> agent,
    status |-> "running",
    startedAt |-> 0,
    completedAt |-> {},
    error |-> {},
    progress |-> StartProgress ]

(* the Delegation literal built by delegate() *)
NewDelegation(sessionID, parent, agent) ==
  [ id |-> sessionID,
    sessionID |-> sessionID,
    parentSessionID |-> parent,
    agent |-> agent,
    status |-> "running",
    startedAt |-> 0,
    completedAt |-> {},
    error |-> {},
    progress |-> StartProgress ]

(* tools: { task: false, delegate: false, todowrite: false,
   plan_save: false }: the tools switched off in a delegation session *)
DisabledTools == {"task", "delegate", "todowrite", "plan_save"}

(* input.prompt; one text stands for every task *)
TaskPrompt == "task"

DefaultPrompt == "Continue from where you left off."

(* the prompt call of delegate(): session addressed, tools switched off and
   text; id and startedAt tell which run of which record its catch acts on *)
PromptBody(d) ==
  [ id |-> d.id, startedAt |-> d.startedAt, session |-> d.sessionID,
    tools |-> DisabledTools, text |-> TaskPrompt ]

(* faulty variant: the caller's prompt is dropped *)
PromptTextAlwaysDefault(newPrompt) == DefaultPrompt

(* newPrompt || "Continue from where you left off."; an empty string is
   falsy *)
PromptText(newPrompt) ==
  IF newPrompt = {} \/ newPrompt = {""}
    THEN DefaultPrompt
    ELSE CHOOSE t \in newPrompt : TRUE

(* the prompt call of resume() *)
ResumeBody(d, newPrompt) ==
  [ id |-> d.id, startedAt |-> d.startedAt, session |-> d.sessionID,
    tools |-> {"task", "delegate", "todowrite", "plan_save"},
    text |-> PromptText(newPrompt) ]

(* pendingByParent.get(parentId) created when absent, then .add(id) *)
PendingAdd(pend, parent, id) ==
  MapSet(pend, parent,
         (IF parent \in DOMAIN pend THEN pend[parent] ELSE {}) \cup {id})

(* faulty variant: the parent is tracked before the agent is validated *)
DelegateAgentNotFoundTracked(agent, parent) ==
  /\ FindAgent(agent) = {}
  /\ pendingByParent' =
       MapSet(pendingByParent, parent,
              IF parent \in DOMAIN pendingByParent
                THEN pendingByParent[parent] ELSE {})
  /\ ret' = Returned("delegate", UnknownId, agent, "none", "AgentNotFound")
  /\ Quiet
  /\ UNCHANGED << delegations, calls, timers, prompts, nextSession, resumes,
                  limits >>

(* the agent is not in the catalog: delegate() throws *)
DelegateAgentNotFound(agent, parent) ==
  /\ FindAgent(agent) = {}
  /\ ret' = Returned("delegate", UnknownId, agent, "none", "AgentNotFound")
  /\ Quiet
  /\ UNCHANGED << delegations, pendingByParent, calls, timers, prompts,
                  nextSession, resumes, limits >>

(* session.create() answers without an id: delegate() throws *)
DelegateCreateFailed(agent, parent) ==
  /\ FindAgent(agent) # {}
  /\ ret' = Returned("delegate", UnknownId, agent, "none",
                     "SessionCreateFailed")
  /\ Quiet
  /\ UNCHANGED << delegations, pendingByParent, calls, timers, prompts,
                  nextSession, resumes, limits >>

(* session.create() answers with a fresh id; after getParentModel() the
   record is stored and tracked as pending; delegate() then suspends at
   the debugLog before the timer and the prompt *)
DelegateStore(agent, parent) ==
  /\ FindAgent(agent) # {}
  /\ nextSession <= limits.deleg
  /\ Free
  /\ nextSession' = nextSession + 1
  /\ delegations' = MapSet(delegations, nextSession,
                           NewDelegation(nextSession, parent, agent))
  /\ pendingByParent' = PendingAdd(pendingByParent, parent, nextSession)
  /\ calls' = calls (+) One([Call("delegate", "arm", nextSession)
                               EXCEPT !.agent = agent])
  /\ ret' = NoReturn
  /\ Quiet
  /\ UNCHANGED << timers, prompts, resumes, limits >>

(* faulty variant: delegate() awaits the prompt before it returns *)
DelegateArmAwaitsPrompt(c) ==
  /\ c.op = "delegate"
  /\ \/ /\ c.pc = "arm"
        /\ timers' = timers \cup
                       {[id |-> c.id, startedAt |-> delegations[c.id].startedAt]}
        /\ prompts' = prompts (+)
                        One(PromptBody(delegations[c.id]))
        /\ calls' = (calls (-) One(c)) (+) One([c EXCEPT !.pc = "prompt"])
        /\ ret' = NoReturn
     \/ /\ c.pc = "prompt"
        /\ \A p \in BagToSet(prompts) : p.id # c.id
        /\ calls' = calls (-) One(c)
        /\ ret' = Returned("delegate", c.id, c.agent, StatusOf(c.id),
                           "returned")
        /\ UNCHANGED << timers, prompts >>
  /\ Quiet
  /\ UNCHANGED << delegations, pendingByParent, nextSession, resumes, limits >>

(* the watchdog is armed, the prompt is fired and the record is returned *)
DelegateArm(c) ==
  /\ c.op = "delegate" /\ c.pc = "arm"
  /\ timers' = timers \cup
                 {[id |-> c.id, startedAt |-> delegations[c.id].startedAt]}
  /\ prompts' = prompts (+)
                  One(PromptBody(delegations[c.id]))
  /\ calls' = calls (-) One(c)
  /\ ret' = Returned("delegate", c.id, c.agent, StatusOf(c.id), "returned")
  /\ Quiet
  /\ UNCHANGED << delegations, pendingByParent, nextSession, resumes, limits >>

(* ---- interference marks on suspended calls (bookkeeping only) ---- *)

(* another operation wrote the delegation a suspended call works on *)
MarkOther(c, ops, id) ==
  IF c.op \in ops /\ c.id = id THEN [c EXCEPT !.other = TRUE] ELSE c

(* an idle signal arrived while cancel() was awaiting the abort *)
MarkIdleSeen(c, id) ==
  IF c.op = "cancel" /\ c.id = id THEN [c EXCEPT !.idleSeen = TRUE] ELSE c

(* ---- the prompt fired by delegate() or resume() rejects ---- *)

(* the .catch continuation *)
PromptCatch(d, msg) ==
  [d EXCEPT !.status = "error", !.error = {msg}, !.completedAt = {d.startedAt}]

PromptRejected(p, msg) ==
  LET dels == [delegations EXCEPT ![p.id] = PromptCatch(@, msg)]
  IN /\ prompts' = prompts (-) One(p)
     /\ delegations' = dels
     /\ NotifyParent(dels, p.id)
     /\ calls' = BagOfAll(LAMBDA c : MarkOther(c, {"cancel"}, p.id), calls)
     /\ ret' = Returned(IF p.startedAt = 0 THEN "delegate.catch"
                                           ELSE "resume.catch",
                        p.id, msg, StatusOf(p.id), "error")
     /\ UNCHANGED << timers, nextSession, resumes, limits >>

(* ---- DelegationManager.resume ---- *)

(* if (!delegation) throw *)
ResumeNotFound(id) ==
  /\ id \notin Known
  /\ ret' = Returned("resume", id, "none", "none", "NotFound")
  /\ Quiet
  /\ UNCHANGED << delegations, pendingByParent, calls, timers, prompts,
                  nextSession, resumes, limits >>

(* faulty variant: the prompt is sent before the status is looked at *)
ResumeRunningSendsPrompt(id) ==
  /\ Running(id)
  /\ BagCardinality(prompts) < 2
  /\ prompts' = prompts (+)
                  One(ResumeBody(delegations[id], {}))
  /\ ret' = Returned("resume", id, "none", "running", "InvalidState")
  /\ Quiet
  /\ UNCHANGED << delegations, pendingByParent, calls, timers, nextSession,
                  resumes, limits >>

(* if (delegation.status === "running") throw *)
ResumeRunning(id) ==
  /\ Running(id)
  /\ ret' = Returned("resume", id, "none", "running", "InvalidState")
  /\ Quiet
  /\ UNCHANGED << delegations, pendingByParent, calls, timers, prompts,
                  nextSession, resumes, limits >>

(* the statuses resume() goes on with *)
Resumable(status) == status # "running"

(* faulty variant: completedAt and error survive the reset *)
ResumeResetKeepsDate(d) == [d EXCEPT !.status = "running", !.startedAt = @ + 1]

(* the reset of the record *)
ResumeReset(d) ==
  [d EXCEPT !.status = "running", !.completedAt = {}, !.error = {},
            !.startedAt = @ + 1, !.progress = StartProgress]

(* resume(id, newPrompt) on a delegation that is not running; newPrompt is
   empty when the caller gives none *)
ResumeWith(id, newPrompt) ==
  /\ id \in Known
  /\ Resumable(delegations[id].status)
  /\ resumes < limits.resume
  /\ resumes' = resumes + 1
  /\ delegations' = [delegations EXCEPT ![id] = ResumeReset(@)]
  /\ pendingByParent' =
       PendingAdd(pendingByParent, delegations[id].parentSessionID, id)
  /\ prompts' = prompts (+)
                  One(ResumeBody(ResumeReset(delegations[id]), newPrompt))
  /\ calls' = BagOfAll(LAMBDA c : MarkOther(c, {"cancel"}, id), calls)
  /\ ret' = Returned("resume", id,
                     IF newPrompt = {} THEN "none"
                                       ELSE CHOOSE t \in newPrompt : TRUE,
                     StatusOf(id), "resumed")
  /\ Quiet
  /\ UNCHANGED << timers, nextSession, limits >>

(* resume(id) without a prompt *)
Resume(id) == ResumeWith(id, {})

(* ---- DelegationManager.cancel ---- *)

(* faulty variant: the refused cancel still untracks the id *)
CancelNoopUntracks(id) ==
  /\ ~Running(id)
  /\ ret' = Returned("cancel", id, "none", StatusOf(id), "false")
  /\ pendingByParent' =
       [p \in DOMAIN pendingByParent |-> pendingByParent[p] \ {id}]
  /\ Quiet
  /\ UNCHANGED << delegations, calls, timers, prompts, nextSession, resumes,
                  limits >>

(* if (!delegation || delegation.status !== "running") return false *)
CancelNoop(id) ==
  /\ ~Running(id)
  /\ ret' = Returned("cancel", id, "none", StatusOf(id), "false")
  /\ Quiet
  /\ UNCHANGED << delegations, pendingByParent, calls, timers, prompts,
                  nextSession, resumes, limits >>

(* faulty variant: completedAt is not written before the abort *)
CancelMarkNoDate(d) == [d EXCEPT !.status = "cancelled"]

(* faulty variant: nothing is written before the abort *)
CancelMarkNothing(d) == d

(* the writes cancel() makes before it awaits session.abort() *)
CancelMark(d) ==
  [d EXCEPT !.status = "cancelled", !.completedAt = {d.startedAt}]

(* a handler for id that passed its status check and has not written yet *)
HandlerPending(id) ==
  \E c \in InFlight : c.id = id /\ c.op \in {"idle", "timeout"} /\ c.pc = "log"

(* faulty variant: the abort is awaited before anything is written *)
CancelEnterAbortFirst(id) ==
  /\ Running(id)
  /\ Free
  /\ calls' = BagOfAll(LAMBDA c : MarkOther(c, {"delegate"}, id), calls)
                (+) One([Call("cancel", "abort", id)
                           EXCEPT !.other = HandlerPending(id)])
  /\ ret' = NoReturn
  /\ Quiet
  /\ UNCHANGED << delegations, pendingByParent, timers, prompts, nextSession,
                  resumes, limits >>

(* cancel() on a running delegation, up to its await of session.abort() *)
CancelEnter(id) ==
  /\ Running(id)
  /\ Free
  /\ delegations' = [delegations EXCEPT ![id] = CancelMark(@)]
  /\ calls' = BagOfAll(LAMBDA c : MarkOther(c, {"delegate"}, id), calls)
                (+) One([Call("cancel", "abort", id)
                           EXCEPT !.other = HandlerPending(id)])
  /\ ret' = NoReturn
  /\ Quiet
  /\ UNCHANGED << pendingByParent, timers, prompts, nextSession, resumes,
                  limits >>

(* faulty variant: cancel() waits for the prompt into the parent session,
   which does not settle while the parent is generating *)
CancelFinishAwaitsParent(c) ==
  /\ c.op = "cancel" /\ c.pc = "abort"
  /\ calls' = (calls (-) One(c)) (+) One([c EXCEPT !.pc = "notify"])
  /\ NotifyParent(delegations, c.id)
  /\ ret' = NoReturn
  /\ UNCHANGED << delegations, timers, prompts, nextSession, resumes, limits >>

(* after the abort: pending removal, notification, return true *)
CancelFinish(c) ==
  /\ c.op = "cancel" /\ c.pc = "abort"
  /\ calls' = calls (-) One(c)
  /\ NotifyParent(delegations, c.id)
  /\ ret' = Returned("cancel", c.id,
                     IF c.idleSeen /\ ~c.other THEN "idle raced" ELSE "none",
                     StatusOf(c.id), "true")
  /\ UNCHANGED << delegations, timers, prompts, nextSession, resumes, limits >>

CancelAbortResolved(c) == CancelFinish(c)

(* faulty variant: the rejection of the abort escapes cancel() *)
CancelAbortRejectedThrows(c) ==
  /\ c.op = "cancel" /\ c.pc = "abort"
  /\ calls' = calls (-) One(c)
  /\ ret' = Returned("cancel", c.id, "none", StatusOf(c.id), "threw")
  /\ Quiet
  /\ UNCHANGED << delegations, pendingByParent, timers, prompts, nextSession,
                  resumes, limits >>

(* catch { // Ignore abort errors } *)
CancelAbortRejected(c) == CancelFinish(c)

(* ---- the watchdog and DelegationManager.handleTimeout ---- *)

(* if (!delegation || delegation.status !== "running") return *)
HandleTimeoutActs(id) == Running(id)

(* the setTimeout callback runs: handleTimeout is entered when the
   delegation is running, and suspends at its debugLog *)
TimerFire(t) ==
  /\ timers' = timers \ {t}
  /\ IF HandleTimeoutActs(t.id)
       THEN /\ Free
            /\ calls' = calls (+) One(Call("timeout", "log", t.id))
            /\ ret' = Returned("handleTimeout", t.id, "none", StatusOf(t.id),
                               "entered")
       ELSE /\ UNCHANGED calls
            /\ ret' = Returned("handleTimeout", t.id, "none", StatusOf(t.id),
                               "noop")
  /\ Quiet
  /\ UNCHANGED << delegations, pendingByParent, prompts, nextSession, resumes,
                  limits >>

(* faulty variant: the error message is not recorded *)
TimeoutMarkNoMessage(d) ==
  [d EXCEPT !.status = "timeout", !.completedAt = {d.startedAt}]

(* the writes handleTimeout() makes before it aborts the session *)
TimeoutMark(d) ==
  [d EXCEPT !.status = "timeout", !.completedAt = {d.startedAt},
            !.error = {TimeoutMessage}]

TimeoutSet(c) ==
  /\ c.op = "timeout" /\ c.pc = "log"
  /\ delegations' = [delegations EXCEPT ![c.id] = TimeoutMark(@)]
  /\ calls' = (calls (-) One(c)) (+) One([c EXCEPT !.pc = "abort"])
  /\ ret' = NoReturn
  /\ Quiet
  /\ UNCHANGED << pendingByParent, timers, prompts, nextSession, resumes,
                  limits >>

TimeoutFinish(c) ==
  /\ c.op = "timeout" /\ c.pc = "abort"
  /\ calls' = calls (-) One(c)
  /\ NotifyParent(delegations, c.id)
  /\ ret' = NoReturn
  /\ UNCHANGED << delegations, timers, prompts, nextSession, resumes, limits >>

TimeoutAbortResolved(c) == TimeoutFinish(c)

(* catch { // Ignore } *)
TimeoutAbortRejected(c) == TimeoutFinish(c)

(* ---- the session.idle event and DelegationManager.handleSessionIdle ---- *)

(* faulty variant: only the lookup is checked *)
HandleSessionIdleActsOnKnown(id) == id \in Known

(* if (!delegation || delegation.status !== "running") return *)
HandleSessionIdleActs(id) == Running(id)

(* the event hook finds the delegation and calls handleSessionIdle, which
   returns at once unless the delegation is running, and else suspends at
   its debugLog *)
SessionIdle(id) ==
  /\ IF HandleSessionIdleActs(id)
       THEN /\ Free
            /\ calls' = BagOfAll(LAMBDA c : MarkIdleSeen(c, id), calls)
                          (+) One(Call("idle", "log", id))
            /\ ret' = Returned("handleSessionIdle", id, "none", StatusOf(id),
                               "entered")
       ELSE /\ calls' = BagOfAll(LAMBDA c : MarkIdleSeen(c, id), calls)
            /\ ret' = Returned("handleSessionIdle", id, "none", StatusOf(id),
                               "noop")
  /\ Quiet
  /\ UNCHANGED << delegations, pendingByParent, timers, prompts, nextSession,
                  resumes, limits >>

IdleMark(d) ==
  [d EXCEPT !.status = "completed", !.completedAt = {d.startedAt}]

IdleSet(c) ==
  /\ c.op = "idle" /\ c.pc = "log"
  /\ delegations' = [delegations EXCEPT ![c.id] = IdleMark(@)]
  /\ calls' = (BagOfAll(LAMBDA x : MarkOther(x, {"delegate"}, c.id), calls)
                 (-) One(c)) (+) One([c EXCEPT !.pc = "messages"])
  /\ ret' = NoReturn
  /\ Quiet
  /\ UNCHANGED << pendingByParent, timers, prompts, nextSession, resumes,
                  limits >>

(* session.messages() settles (title and description are not modelled);
   then the parent is notified *)
IdleFinish(c) ==
  /\ c.op = "idle" /\ c.pc = "messages"
  /\ calls' = calls (-) One(c)
  /\ NotifyParent(delegations, c.id)
  /\ ret' = NoReturn
  /\ UNCHANGED << delegations, timers, prompts, nextSession, resumes, limits >>

IdleMessagesResolved(c) == IdleFinish(c)

(* faulty variant: the rejection of the message read escapes the handler *)
IdleMessagesRejectedThrows(c) ==
  /\ c.op = "idle" /\ c.pc = "messages"
  /\ calls' = calls (-) One(c)
  /\ ret' = Returned("handleSessionIdle", c.id, "none", StatusOf(c.id), "threw")
  /\ Quiet
  /\ UNCHANGED << delegations, pendingByParent, timers, prompts, nextSession,
                  resumes, limits >>

(* catch { // Ignore } *)
IdleMessagesRejected(c) == IdleFinish(c)

(* the prompt into the parent session that carried the i-th notification
   rejects: .catch(() => {}) runs *)
NotifyDeliveryRejected(i) ==
  /\ i \in 1..Len(sent)
  /\ ret' = Returned("notifyParent.catch", sent[i].id, "delivery rejected",
                     StatusOf(sent[i].id), "swallowed")
  /\ Quiet
  /\ UNCHANGED << delegations, pendingByParent, calls, timers, prompts,
                  nextSession, resumes, limits >>

(* ---- the system ---- *)

InitState ==
  /\ delegations = [x \in {} |-> {}]
  /\ pendingByParent = [x \in {} |-> {}]
  /\ calls = EmptyBag
  /\ timers = {}
  /\ prompts = EmptyBag
  /\ nextSession = 1
  /\ resumes = 0
  /\ ret = NoReturn
  /\ note = NoNote
  /\ sent = << >>

Init ==
  /\ InitState
  /\ limits = [deleg |-> MaxDeleg, resume |-> MaxResume, calls |-> MaxCalls,
               logging |-> FALSE]

Next ==
  \/ \E a \in AgentNames, p \in Parents : DelegateAgentNotFound(a, p)
  \/ \E a \in AgentNames, p \in Parents : DelegateCreateFailed(a, p)
  \/ \E a \in AgentNames, p \in Parents : DelegateStore(a, p)
  \/ \E c \in InFlight : DelegateArm(c)
  \/ \E p \in BagToSet(prompts), m \in ErrorMessages : PromptRejected(p, m)
  \/ \E id \in Ids : ResumeNotFound(id)
  \/ \E id \in Ids : ResumeRunning(id)
  \/ \E id \in Ids : Resume(id)
  \/ \E id \in Ids : CancelNoop(id)
  \/ \E id \in Ids : CancelEnter(id)
  \/ \E c \in InFlight : CancelAbortResolved(c)
  \/ \E c \in InFlight : CancelAbortRejected(c)
  \/ \E t \in timers : TimerFire(t)
  \/ \E c \in InFlight : TimeoutSet(c)
  \/ \E c \in InFlight : TimeoutAbortResolved(c)
  \/ \E c \in InFlight : TimeoutAbortRejected(c)
  \/ \E id \in Ids : SessionIdle(id)
  \/ \E c \in InFlight : IdleSet(c)
  \/ \E c \in InFlight : IdleMessagesResolved(c)
  \/ \E c \in InFlight : IdleMessagesRejected(c)

Spec == Init /\ [][Next]_vars

(* delegate() always gets to run its last step; nothing makes a prompt
   settle *)
FairSpec == Spec /\ WF_vars(\E c \in InFlight : DelegateArm(c))

(* ---- the batching scenario: one parent, no resume ---- *)

InitBatch ==
  /\ InitState
  /\ limits = [deleg |-> BatchSize, resume |-> 0, calls |-> BatchCalls,
               logging |-> TRUE]

NextBatch ==
  \/ DelegateStore("explore", "p1")
  \/ \E c \in InFlight : DelegateArm(c)
  \/ \E p \in BagToSet(prompts), m \in ErrorMessages : PromptRejected(p, m)
  \/ \E id \in Ids : CancelEnter(id)
  \/ \E c \in InFlight : CancelAbortResolved(c)
  \/ \E t \in timers : TimerFire(t)
  \/ \E c \in InFlight : TimeoutSet(c)
  \/ \E c \in InFlight : TimeoutAbortResolved(c)
  \/ \E id \in Ids : SessionIdle(id)
  \/ \E c \in InFlight : IdleSet(c)
  \/ \E c \in InFlight : IdleMessagesResolved(c)

SpecBatch == InitBatch /\ [][NextBatch]_vars

(* ---- the agent scenario: every name of the catalog is asked for ---- *)

(* the modes under which an agent is advertised as usable as a sub-agent
   ("unset" stands for an entry without mode) *)
SubagentModes == {"subagent", "all", "unset"}

AskedAgents == {a.name : a \in Catalog} \cup AgentNames

InitAgents ==
  /\ InitState
  /\ limits = [deleg |-> MaxDeleg, resume |-> 0, calls |-> BatchCalls,
               logging |-> FALSE]

NextAgents ==
  \/ \E a \in AskedAgents, p \in Parents : DelegateAgentNotFound(a, p)
  \/ \E a \in AskedAgents, p \in Parents : DelegateCreateFailed(a, p)
  \/ \E a \in AskedAgents, p \in Parents : DelegateStore(a, p)
  \/ \E c \in InFlight : DelegateArm(c)
  \/ \E p \in BagToSet(prompts), m \in ErrorMessages : PromptRejected(p, m)
  \/ \E id \in Ids : CancelNoop(id)
  \/ \E id \in Ids : CancelEnter(id)
  \/ \E c \in InFlight : CancelAbortResolved(c)
  \/ \E t \in timers : TimerFire(t)
  \/ \E c \in InFlight : TimeoutSet(c)
  \/ \E c \in InFlight : TimeoutAbortResolved(c)
  \/ \E id \in Ids : SessionIdle(id)
  \/ \E c \in InFlight : IdleSet(c)
  \/ \E c \in InFlight : IdleMessagesResolved(c)

SpecAgents == InitAgents /\ [][NextAgents]_vars

(* ---- the lifecycle scenario: calls that go through, under scheduling ---- *)

InitLifecycle ==
  /\ InitState
  /\ limits = [deleg |-> LifeDeleg, resume |-> LifeResume, calls |-> LifeCalls,
               logging |-> FALSE]

NextLifecycle ==
  \/ DelegateStore("explore", "p1")
  \/ \E c \in InFlight : DelegateArm(c)
  \/ \E p \in BagToSet(prompts), m \in ErrorMessages : PromptRejected(p, m)
  \/ \E id \in Ids : Resume(id)
  \/ \E id \in Ids : CancelEnter(id)
  \/ \E c \in InFlight : CancelAbortResolved(c)
  \/ \E c \in InFlight : CancelAbortRejected(c)
  \/ \E t \in timers : TimerFire(t)
  \/ \E c \in InFlight : TimeoutSet(c)
  \/ \E c \in InFlight : TimeoutAbortResolved(c)
  \/ \E c \in InFlight : TimeoutAbortRejected(c)
  \/ \E id \in Ids : SessionIdle(id)
  \/ \E c \in InFlight : IdleSet(c)
  \/ \E c \in InFlight : IdleMessagesResolved(c)
  \/ \E c \in InFlight : IdleMessagesRejected(c)

SpecLifecycle == InitLifecycle /\ [][NextLifecycle]_vars

(* The event loop runs the continuation of every await that has settled
   and fires every armed timer; debugLog always settles, and here the
   remote abort and the remote message read settle too.  Nothing makes an
   idle signal arrive, a prompt reject or a caller call. *)
FairLifecycle ==
  /\ SpecLifecycle
  /\ WF_vars(\E c \in InFlight : DelegateArm(c))
  /\ WF_vars(\E t \in timers : TimerFire(t))
  /\ WF_vars(\E c \in InFlight : TimeoutSet(c))
  /\ WF_vars(\E c \in InFlight : TimeoutAbortResolved(c))
  /\ WF_vars(\E c \in InFlight : IdleSet(c))
  /\ WF_vars(\E c \in InFlight : IdleMessagesResolved(c))
  /\ WF_vars(\E c \in InFlight : CancelAbortResolved(c))

(* ---- the failure scenario: remote calls of the handlers reject ---- *)

InitFailures ==
  /\ InitState
  /\ limits = [deleg |-> MaxDeleg, resume |-> 0, calls |-> MaxCalls,
               logging |-> TRUE]

NextFailures ==
  \/ DelegateStore("explore", "p1")
  \/ \E c \in InFlight : DelegateArm(c)
  \/ \E id \in Ids : CancelEnter(id)
  \/ \E c \in InFlight : CancelAbortRejected(c)
  \/ \E t \in timers : TimerFire(t)
  \/ \E c \in InFlight : TimeoutSet(c)
  \/ \E c \in InFlight : TimeoutAbortRejected(c)
  \/ \E id \in Ids : SessionIdle(id)
  \/ \E c \in InFlight : IdleSet(c)
  \/ \E c \in InFlight : IdleMessagesRejected(c)
  \/ \E i \in 1..Len(sent) : NotifyDeliveryRejected(i)

SpecFailures == InitFailures /\ [][NextFailures]_vars

(* ---- DelegationManager.readDelegation ---- *)

(* A message of a session is a record with its id, the role of its author,
   its time and its parts; a part has a type and a text.  Times are taken
   of equal width, for which localeCompare of the strings is the order of
   the numbers.  What session.messages() does is a record: whether the
   call resolved or rejected, and the data of the answer, a set that holds
   the list of messages or is empty when the answer carries no data. *)
Resolved(ms) == [settled |-> "resolved", data |-> {ms}]

NoData == [settled |-> "resolved", data |-> {}]

Rejected == [settled |-> "rejected", data |-> {}]

NotFetched == [settled |-> "not called", data |-> {}]

DataOf(fetched) == CHOOSE ms \in fetched.data : TRUE

Texts(m) == SelectSeq(m.parts, LAMBDA p : p.type = "text")

BodyOf(m) == [i \in 1..Len(Texts(m)) |-> Texts(m)[i].text]

AssistantMessages(ms) == SelectSeq(ms, LAMBDA m : m.role = "assistant")

NoBody == << >>

(* faulty variant: the first assistant message is taken *)
GetSimpleResultFirst(fetched) ==
  IF fetched.settled = "rejected"
    THEN [kind |-> "error retrieving result", body |-> NoBody]
  ELSE IF fetched.data = {} \/ Len(DataOf(fetched)) = 0
    THEN [kind |-> "no output", body |-> NoBody]
  ELSE IF Len(AssistantMessages(DataOf(fetched))) = 0
    THEN [kind |-> "no assistant response", body |-> NoBody]
  ELSE LET lastMessage == AssistantMessages(DataOf(fetched))[1]
       IN IF Len(Texts(lastMessage)) = 0
            THEN [kind |-> "no text content", body |-> NoBody]
            ELSE [kind |-> "task result", body |-> BodyOf(lastMessage)]

(* getSimpleResult: the kind of text returned and the result body *)
GetSimpleResult(fetched) ==
  IF fetched.settled = "rejected"
    THEN [kind |-> "error retrieving result", body |-> NoBody]
  ELSE IF fetched.data = {} \/ Len(DataOf(fetched)) = 0
    THEN [kind |-> "no output", body |-> NoBody]
  ELSE IF Len(AssistantMessages(DataOf(fetched))) = 0
    THEN [kind |-> "no assistant response", body |-> NoBody]
  ELSE LET assistantMessages == AssistantMessages(DataOf(fetched))
           lastMessage == assistantMessages[Len(assistantMessages)]
       IN IF Len(Texts(lastMessage)) = 0
            THEN [kind |-> "no text content", body |-> NoBody]
            ELSE [kind |-> "task result", body |-> BodyOf(lastMessage)]

(* the path readDelegation takes for a status and the arguments *)
ReadPath(status, args) ==
  IF status = "none" THEN "NotFound"
  ELSE IF status = "running" THEN "still running"
  ELSE IF status # "completed" THEN "ended"
  ELSE IF args.ai THEN "ai"
  ELSE IF args.mode \in {"none", "simple"} THEN "simple"
  ELSE IF args.mode = "full" THEN "full"
  ELSE "invalid mode"

(* the paths that call session.messages() *)
FetchingPaths == {"simple", "full", "ai"}

(* String(info.time || ""): the decimal digits of the number, none for 0 *)
RECURSIVE TimeString(_)
TimeString(time) ==
  IF time = 0 THEN << >>
  ELSE IF time < 10 THEN << time >>
  ELSE Append(TimeString(time \div 10), time % 10)

(* a.localeCompare(b) <= 0 on strings of digits: character by character,
   a prefix first *)
RECURSIVE LocaleLeq(_, _)
LocaleLeq(a, b) ==
  IF a = << >> THEN TRUE
  ELSE IF b = << >> THEN FALSE
  ELSE IF a[1] # b[1] THEN a[1] < b[1]
  ELSE LocaleLeq(Tail(a), Tail(b))

(* [...messageData].sort((a, b) => timeA.localeCompare(timeB)): stable *)
RECURSIVE SortByTime(_)
SortByTime(ms) ==
  IF Len(ms) = 0 THEN << >>
  ELSE LET init == SortByTime(SubSeq(ms, 1, Len(ms) - 1))
           m == ms[Len(ms)]
           k == Cardinality({i \in 1..Len(init) :
                               LocaleLeq(TimeString(init[i].time),
                                         TimeString(m.time))})
       IN SubSeq(init, 1, k) \o << m >> \o SubSeq(init, k + 1, Len(init))

(* sortedMessages.findIndex((m) => m.info.id === id), counted from 1;
   0 when there is none *)
FindIndex(ms, id) ==
  IF \E i \in 1..Len(ms) : ms[i].id = id
    THEN CHOOSE i \in 1..Len(ms) :
           ms[i].id = id /\ \A j \in 1..(i - 1) : ms[j].id # id
    ELSE 0

(* the messages after the one named by since_message_id *)
Since(sorted, since) ==
  IF since = {} THEN sorted
  ELSE LET index == FindIndex(sorted, CHOOSE x \in since : TRUE)
       IN IF index # 0 THEN SubSeq(sorted, index + 1, Len(sorted)) ELSE sorted

MaxLimit == 100

(* args.limit ? Math.min(args.limit, 100) : undefined; an optional value
   is a set with at most one element, and 0 is falsy *)
Limit(limit) ==
  IF limit = {} \/ limit = {0} THEN {}
  ELSE LET n == CHOOSE x \in limit : TRUE
       IN {IF n < MaxLimit THEN n ELSE MaxLimit}

(* s.slice(0, n) *)
Slice(s, n) ==
  IF n >= 0
    THEN SubSeq(s, 1, IF n < Len(s) THEN n ELSE Len(s))
    ELSE SubSeq(s, 1, IF Len(s) + n > 0 THEN Len(s) + n ELSE 0)

(* getFullSession: the kind of text returned, the count of all messages,
   the ids of the messages shown, in order, and the has-more flag *)
GetFullSession(fetched, args) ==
  IF fetched.settled = "rejected"
    THEN [kind |-> "error fetching session", total |-> 0, returned |-> << >>,
          hasMore |-> FALSE]
  ELSE IF fetched.data = {} \/ Len(DataOf(fetched)) = 0
    THEN [kind |-> "no messages", total |-> 0, returned |-> << >>,
          hasMore |-> FALSE]
  ELSE LET sortedMessages == SortByTime(DataOf(fetched))
           filteredMessages == Since(sortedMessages, args.since)
           limit == Limit(args.limit)
           hasMore == limit # {}
                      /\ Len(filteredMessages) > (CHOOSE x \in limit : TRUE)
           visibleMessages ==
             IF limit # {}
               THEN Slice(filteredMessages, CHOOSE x \in limit : TRUE)
               ELSE filteredMessages
       IN [kind |-> "full session",
           total |-> Len(sortedMessages),
           returned |-> [i \in 1..Len(visibleMessages)
                           |-> visibleMessages[i].id],
           hasMore |-> hasMore]

(* faulty variant: a delegation that is not running is read like a
   completed one *)
ReadDelegationAnyEnded(id, args, fetched) ==
  LET status == IF StatusOf(id) \in {"none", "running"}
                  THEN StatusOf(id) ELSE "completed"
      path == ReadPath(status, args)
  IN /\ ret' = Returned("readDelegation", id,
                        [args |-> args, fetch |-> path \in FetchingPaths],
                        StatusOf(id), path)
     /\ Quiet
     /\ UNCHANGED << delegations, pendingByParent, calls, timers, prompts,
                     nextSession, resumes, limits >>

(* readDelegation(args), with what session.messages() answers when it is
   called; an unknown id makes it throw NotFound.  The caller observes the
   path taken, whether messages were fetched, and the text returned. *)
ReadDelegation(id, args, fetched) ==
  LET path == ReadPath(StatusOf(id), args)
      out == IF path = "simple" THEN GetSimpleResult(fetched)
             ELSE IF path = "full" THEN GetFullSession(fetched, args)
             ELSE [kind |-> path]
  IN /\ ret' = Returned("readDelegation", id,
                        [args |-> args, fetch |-> path \in FetchingPaths,
                         fetched |-> IF path \in FetchingPaths
                                       THEN fetched ELSE NotFetched,
                         out |-> out],
                        StatusOf(id), path)
     /\ Quiet
     /\ UNCHANGED << delegations, pendingByParent, calls, timers, prompts,
                     nextSession, resumes, limits >>

(* ---- the read scenario: reads at every point of a lifecycle ---- *)

ReadModes == {"none", "simple", "full", "bogus"}

DispatchArgs ==
  [mode : ReadModes, ai : BOOLEAN, since : {{}}, limit : {{}}]

OneReply ==
  << [id |-> "m1", role |-> "user", time |-> 1,
      parts |-> << [type |-> "text", text |-> "task"] >>],
     [id |-> "m2", role |-> "assistant", time |-> 2,
      parts |-> << [type |-> "text", text |-> "answer"] >>] >>

InitRead ==
  /\ InitState
  /\ limits = [deleg |-> MaxDeleg, resume |-> 0, calls |-> BatchCalls,
               logging |-> FALSE]

NextRead ==
  \/ DelegateStore("explore", "p1")
  \/ \E c \in InFlight : DelegateArm(c)
  \/ \E p \in BagToSet(prompts), m \in ErrorMessages : PromptRejected(p, m)
  \/ \E id \in Ids : CancelEnter(id)
  \/ \E c \in InFlight : CancelAbortResolved(c)
  \/ \E t \in timers : TimerFire(t)
  \/ \E c \in InFlight : TimeoutSet(c)
  \/ \E c \in InFlight : TimeoutAbortResolved(c)
  \/ \E id \in Ids : SessionIdle(id)
  \/ \E c \in InFlight : IdleSet(c)
  \/ \E c \in InFlight : IdleMessagesResolved(c)
  \/ \E id \in Ids, args \in DispatchArgs : ReadDelegation(id, args, Resolved(OneReply))

SpecRead == InitRead /\ [][NextRead]_vars

(* ---- the simple-read scenario: a completed delegation is read ---- *)

MaxMsgs == 2       \* messages in the list session.messages() answers

PartLists ==
  { << >>,
    << [type |-> "text", text |-> "a"] >>,
    << [type |-> "text", text |-> "b"] >>,
    << [type |-> "tool", text |-> "x"] >>,
    << [type |-> "text", text |-> "a"], [type |-> "tool", text |-> "x"],
       [type |-> "text", text |-> "b"] >> }

SimpleMessages ==
  [id : {"m"}, role : {"user", "assistant"}, time : {1}, parts : PartLists]

RECURSIVE ListsUpTo(_, _)
ListsUpTo(S, n) ==
  IF n = 0 THEN {<< >>}
  ELSE LET shorter == ListsUpTo(S, n - 1)
       IN shorter \cup {Append(l, x) : l \in shorter, x \in S}

Fetches(S, n) == {Resolved(ms) : ms \in ListsUpTo(S, n)} \cup {NoData, Rejected}

SimpleArgs == [mode : {"none", "simple"}, ai : {FALSE}, since : {{}},
               limit : {{}}]

InitSimple ==
  /\ InitState
  /\ limits = [deleg |-> MaxDeleg, resume |-> 0, calls |-> BatchCalls,
               logging |-> FALSE]

NextSimple ==
  \/ DelegateStore("explore", "p1")
  \/ \E c \in InFlight : DelegateArm(c)
  \/ \E id \in Ids : SessionIdle(id)
  \/ \E c \in InFlight : IdleSet(c)
  \/ \E c \in InFlight : IdleMessagesResolved(c)
  \/ \E id \in Ids, args \in SimpleArgs, f \in Fetches(SimpleMessages, MaxMsgs) :
       ReadDelegation(id, args, f)

SpecSimple == InitSimple /\ [][NextSimple]_vars

(* ---- DelegationManager.listDelegations ---- *)

(* the ids of the parent's delegations; the order of the list is not
   modelled *)
ListDelegations(parent) ==
  /\ ret' = Returned("listDelegations", UnknownId,
                     {id \in Known : delegations[id].parentSessionID = parent},
                     "none", "listed")
  /\ Quiet
  /\ UNCHANGED << delegations, pendingByParent, calls, timers, prompts,
                  nextSession, resumes, limits >>

(* client.app.agents() or client.session.create() rejects: delegate()
   throws what the remote call threw, before any write *)
DelegateRemoteRejected(agent, parent) ==
  /\ ret' = Returned("delegate", UnknownId, agent, "none", "RemoteRejected")
  /\ Quiet
  /\ UNCHANGED << delegations, pendingByParent, calls, timers, prompts,
                  nextSession, resumes, limits >>

(* ---- the tools of tools.ts ---- *)

(* the outcomes of a manager operation that are thrown errors *)
Throws ==
  {"AgentNotFound", "SessionCreateFailed", "NotFound", "InvalidState",
   "RemoteRejected"}

Thrown(r) == r.result \in Throws

(* what execute() hands to its caller: a text, or a throw *)
ToolText(text, failed, error) ==
  [kind |-> "text", text |-> text, failed |-> failed, error |-> error]

ToolThrow(error) ==
  [kind |-> "throw", text |-> "none", failed |-> TRUE, error |-> error]

(* createDelegate: try { manager.delegate } catch *)
ToolDelegate(r) ==
  IF Thrown(r) THEN ToolText("Delegation failed", TRUE, r.result)
               ELSE ToolText("Delegation started", FALSE, "none")

(* createDelegationRead: try { manager.readDelegation } catch *)
ToolRead(r) ==
  IF Thrown(r) THEN ToolText("Error reading delegation", TRUE, r.result)
               ELSE ToolText(r.arg.out.kind, FALSE, "none")

(* createDelegationList: manager.listDelegations outside any try *)
ToolList(r) ==
  IF Thrown(r) THEN ToolThrow(r.result)
               ELSE ToolText("Delegations", FALSE, "none")

(* createDelegationCancel: try { manager.cancel } catch *)
ToolCancel(r) ==
  IF Thrown(r) THEN ToolText("Error cancelling", TRUE, r.result)
  ELSE IF r.result = "false" THEN ToolText("Could not cancel", TRUE, "none")
  ELSE ToolText("Cancelled delegation", FALSE, "none")

(* faulty variant: the error of manager.resume is passed on *)
ToolResumeRethrows(r) ==
  IF Thrown(r) THEN ToolThrow(r.result)
               ELSE ToolText("Resumed delegation", FALSE, "none")

(* createDelegationResume: try { manager.resume } catch *)
ToolResume(r) ==
  IF Thrown(r) THEN ToolText("Error resuming", TRUE, r.result)
               ELSE ToolText("Resumed delegation", FALSE, "none")

ToolOps ==
  {"delegate", "readDelegation", "listDelegations", "cancel", "resume"}

(* the result of the tool whose manager call has just come back as r *)
ToolOutcome(r) ==
  CASE r.op = "delegate" -> ToolDelegate(r)
    [] r.op = "readDelegation" -> ToolRead(r)
    [] r.op = "listDelegations" -> ToolList(r)
    [] r.op = "cancel" -> ToolCancel(r)
    [] r.op = "resume" -> ToolResume(r)

(* ---- the tool scenario: every call a tool can make ---- *)

InitTools ==
  /\ InitState
  /\ limits = [deleg |-> MaxDeleg, resume |-> MaxResume, calls |-> BatchCalls,
               logging |-> FALSE]

NextTools ==
  \/ \E a \in AgentNames, p \in Parents : DelegateRemoteRejected(a, p)
  \/ \E a \in AgentNames, p \in Parents : DelegateAgentNotFound(a, p)
  \/ \E a \in AgentNames, p \in Parents : DelegateCreateFailed(a, p)
  \/ \E a \in AgentNames, p \in Parents : DelegateStore(a, p)
  \/ \E c \in InFlight : DelegateArm(c)
  \/ \E id \in Ids : ResumeNotFound(id)
  \/ \E id \in Ids : ResumeRunning(id)
  \/ \E id \in Ids : Resume(id)
  \/ \E id \in Ids : CancelNoop(id)
  \/ \E id \in Ids : CancelEnter(id)
  \/ \E c \in InFlight : CancelAbortResolved(c)
  \/ \E c \in InFlight : CancelAbortRejected(c)
  \/ \E id \in Ids : SessionIdle(id)
  \/ \E c \in InFlight : IdleSet(c)
  \/ \E c \in InFlight : IdleMessagesResolved(c)
  \/ \E id \in Ids, args \in DispatchArgs :
       ReadDelegation(id, args, Resolved(OneReply))
  \/ \E id \in Ids, args \in DispatchArgs : ReadDelegation(id, args, Rejected)
  \/ \E p \in Parents : ListDelegations(p)

SpecTools == InitTools /\ [][NextTools]_vars

(* ---- DelegationManager.cancelAll ---- *)

(* faulty variant: the parent of the delegation is not looked at *)
NextToCancelAnyParent(from, parent) ==
  {id \in Known :
     /\ id > from /\ Running(id)
     /\ \A x \in Known : (x > from /\ x < id) => ~Running(x)}

(* the next entry of the map, after position from, that the loop of
   cancelAll acts on; the map iterates in the order of insertion, which is
   the order of the session ids; empty when there is none *)
NextToCancel(from, parent) ==
  {id \in Known :
     /\ id > from
     /\ delegations[id].parentSessionID = parent /\ Running(id)
     /\ \A x \in Known :
          (x > from /\ x < id)
          => ~(delegations[x].parentSessionID = parent /\ Running(x))}

CancelAllActive == \E c \in InFlight : c.op = "cancelAll"

(* the loop from position from on, up to the abort of the next cancel() or
   to the return; dels is the map before this stretch, c the call record
   with the ids cancelled so far *)
CancelAllGoOn(c, from) ==
  LET next == NextToCancel(from, c.parent)
  IN IF next = {}
       THEN /\ delegations' = delegations
            /\ calls' = EmptyBag
            /\ ret' = Returned("cancelAll", UnknownId,
                               [parent |-> c.parent, cancelled |-> c.cancelled,
                                was |-> c.was],
                               "none", "returned")
       ELSE LET id == CHOOSE x \in next : TRUE
            IN /\ delegations' = [delegations EXCEPT ![id] = CancelMark(@)]
               /\ calls' = One([c EXCEPT !.id = id])
               /\ ret' = NoReturn

(* cancelAll(parent) is called while no other operation is suspended *)
CancelAllEnter(parent) ==
  /\ calls = EmptyBag
  /\ CancelAllGoOn([parent |-> parent, cancelled |-> << >>,
                    was |-> {id \in Known :
                               delegations[id].parentSessionID = parent
                               /\ Running(id)}]
                     @@ Call("cancelAll", "abort", UnknownId),
                   UnknownId)
  /\ Quiet
  /\ UNCHANGED << pendingByParent, timers, prompts, nextSession, resumes,
                  limits >>

(* the abort of the cancel() in progress settles: the id leaves the pending
   set, the parent is notified, cancel() returns true, the id is pushed and
   the loop goes on *)
CancelAllAbortSettled(c) ==
  /\ c.op = "cancelAll" /\ c.pc = "abort"
  /\ NotifyParent(delegations, c.id)
  /\ CancelAllGoOn([c EXCEPT !.cancelled = Append(@, c.id)], c.id)
  /\ UNCHANGED << timers, prompts, nextSession, resumes, limits >>

(* ---- the cancel-all scenario: two parents, cancelAll not interleaved ---- *)

AllDeleg == 3      \* sessions handed out in the cancel-all scenario

TwoParents == {"p1", "p2"}

InitCancelAll ==
  /\ InitState
  /\ limits = [deleg |-> AllDeleg, resume |-> 0, calls |-> BatchCalls,
               logging |-> FALSE]

NextCancelAll ==
  \/ /\ ~CancelAllActive
     /\ \/ \E p \in TwoParents : DelegateStore("explore", p)
        \/ \E c \in InFlight : DelegateArm(c)
        \/ \E id \in Ids : SessionIdle(id)
        \/ \E c \in InFlight : IdleSet(c)
        \/ \E c \in InFlight : IdleMessagesResolved(c)
  \/ \E p \in TwoParents : CancelAllEnter(p)
  \/ \E c \in InFlight : CancelAllAbortSettled(c)

SpecCancelAll == InitCancelAll /\ [][NextCancelAll]_vars

(* ---- the resume scenario: resume() with and without a prompt ---- *)

(* the newPrompt arguments tried: none, the empty string, a text *)
ResumePrompts == {{}, {""}, {"more"}}

InitResume ==
  /\ InitState
  /\ limits = [deleg |-> BatchSize, resume |-> MaxResume, calls |-> BatchCalls,
               logging |-> FALSE]

NextResume ==
  \/ DelegateStore("explore", "p1")
  \/ \E c \in InFlight : DelegateArm(c)
  \/ \E p \in BagToSet(prompts), m \in ErrorMessages : PromptRejected(p, m)
  \/ \E id \in Ids : CancelEnter(id)
  \/ \E c \in InFlight : CancelAbortResolved(c)
  \/ \E id \in Ids : SessionIdle(id)
  \/ \E c \in InFlight : IdleSet(c)
  \/ \E c \in InFlight : IdleMessagesResolved(c)
  \/ \E id \in Ids : ResumeNotFound(id)
  \/ \E id \in Ids : ResumeRunning(id)
  \/ \E id \in Ids, newPrompt \in ResumePrompts : ResumeWith(id, newPrompt)

SpecResume == InitResume /\ [][NextResume]_vars

(* ---- the full-read scenario: a completed delegation read in full ---- *)

MessageIds == << "m1", "m2", "m3", "m4" >>

(* the times a message may carry: numbers of one and of two digits *)
MessageTimes == {2, 3, 10}

(* the lists of up to n messages; the i-th fetched has the i-th id *)
RECURSIVE FullLists(_)
FullLists(n) ==
  IF n = 0 THEN {<< >>}
  ELSE LET shorter == FullLists(n - 1)
       IN shorter \cup
          {Append(l, [id |-> MessageIds[n], role |-> "assistant", time |-> t,
                      parts |-> << [type |-> "text", text |-> "a"] >>]) :
             l \in {x \in shorter : Len(x) = n - 1}, t \in MessageTimes}

(* since_message_id absent, an id of the session, an id that is not;
   limit absent, zero, within the list, above the cap *)
FullArgs ==
  [mode : {"full"}, ai : {FALSE}, since : {{}, {"m1"}, {"m2"}, {"zz"}},
   limit : {{}, {0}, {1}, {2}, {101}}]

InitFull ==
  /\ InitState
  /\ limits = [deleg |-> MaxDeleg, resume |-> 0, calls |-> BatchCalls,
               logging |-> FALSE]

NextFull ==
  \/ DelegateStore("explore", "p1")
  \/ \E c \in InFlight : DelegateArm(c)
  \/ \E id \in Ids : SessionIdle(id)
  \/ \E c \in InFlight : IdleSet(c)
  \/ \E c \in InFlight : IdleMessagesResolved(c)
  \/ \E id \in Ids, args \in FullArgs,
        fetched \in {Resolved(ms) : ms \in FullLists(MaxMsgs)}
                      \cup {NoData, Rejected} :
       ReadDelegation(id, args, fetched)

SpecFull == InitFull /\ [][NextFull]_vars

(* ---- DelegationManager.handleMessageEvent ---- *)

(* Array.from(delegations.values()).find((d) => d.sessionID === sessionID):
   the first in the order of insertion, none as the empty set *)
FindBySession(sessionID) ==
  {id \in Known :
     /\ delegations[id].sessionID = sessionID
     /\ \A x \in Known : delegations[x].sessionID = sessionID => id <= x}

(* the progress after a message event; an absent or empty text leaves
   lastMessage as it is *)
ProgressUpdate(progress, messageText) ==
  [lastUpdate |-> "event",
   lastMessage |-> IF messageText = {} \/ messageText = {""}
                     THEN progress.lastMessage ELSE messageText]

(* faulty variant: the status of the delegation is not looked at *)
HandleMessageEventAnyStatus(sessionID, messageText) ==
  LET found == FindBySession(sessionID)
      text == IF messageText = {} THEN "none"
              ELSE CHOOSE t \in messageText : TRUE
  IN /\ IF found = {}
          THEN /\ delegations' = delegations
               /\ ret' = Returned("handleMessageEvent", UnknownId, text,
                                  "none", "ignored")
          ELSE LET id == CHOOSE x \in found : TRUE
               IN /\ delegations' =
                       [delegations EXCEPT ![id].progress =
                                             ProgressUpdate(@, messageText)]
                  /\ ret' = Returned("handleMessageEvent", id, text,
                                     StatusOf(id), "updated")
     /\ Quiet
     /\ UNCHANGED << pendingByParent, calls, timers, prompts, nextSession,
                     resumes, limits >>

(* handleMessageEvent(sessionID, messageText?) *)
HandleMessageEvent(sessionID, messageText) ==
  LET found == FindBySession(sessionID)
      text == IF messageText = {} THEN "none"
              ELSE CHOOSE t \in messageText : TRUE
  IN /\ IF found = {} \/ \E id \in found : ~Running(id)
          THEN /\ delegations' = delegations
               /\ ret' = Returned("handleMessageEvent",
                                  IF found = {} THEN UnknownId
                                  ELSE CHOOSE x \in found : TRUE,
                                  text,
                                  IF found = {} THEN "none"
                                  ELSE StatusOf(CHOOSE x \in found : TRUE),
                                  "ignored")
          ELSE LET id == CHOOSE x \in found : TRUE
               IN /\ delegations' =
                       [delegations EXCEPT ![id].progress =
                                             ProgressUpdate(@, messageText)]
                  /\ ret' = Returned("handleMessageEvent", id, text,
                                     "running", "updated")
     /\ Quiet
     /\ UNCHANGED << pendingByParent, calls, timers, prompts, nextSession,
                     resumes, limits >>

(* ---- the progress scenario: message events at every stage ---- *)

(* the messageText arguments tried: none, the empty string, a text *)
MessageTexts == {{}, {""}, {"working"}}

InitProgress ==
  /\ InitState
  /\ limits = [deleg |-> MaxDeleg, resume |-> MaxResume, calls |-> BatchCalls,
               logging |-> FALSE]

NextProgress ==
  \/ DelegateStore("explore", "p1")
  \/ \E c \in InFlight : DelegateArm(c)
  \/ \E id \in Ids : CancelEnter(id)
  \/ \E c \in InFlight : CancelAbortResolved(c)
  \/ \E id \in Ids : SessionIdle(id)
  \/ \E c \in InFlight : IdleSet(c)
  \/ \E c \in InFlight : IdleMessagesResolved(c)
  \/ \E id \in Ids : Resume(id)
  \/ \E sessionID \in Ids, messageText \in MessageTexts :
       HandleMessageEvent(sessionID, messageText)

SpecProgress == InitProgress /\ [][NextProgress]_vars

(* ---- the double-cancel scenario: delegate and cancel only ---- *)

InitCancelTwice ==
  /\ InitState
  /\ limits = [deleg |-> BatchSize, resume |-> 0, calls |-> MaxCalls,
               logging |-> TRUE]

NextCancelTwice ==
  \/ DelegateStore("explore", "p1")
  \/ \E c \in InFlight : DelegateArm(c)
  \/ \E id \in Ids : CancelNoop(id)
  \/ \E id \in Ids : CancelEnter(id)
  \/ \E c \in InFlight : CancelAbortResolved(c)
  \/ \E c \in InFlight : CancelAbortRejected(c)

SpecCancelTwice == InitCancelTwice /\ [][NextCancelTwice]_vars

(* ---- the two-parent scenario: every operation, under two parents ---- *)

InitParents ==
  /\ InitState
  /\ limits = [deleg |-> BatchSize, resume |-> LifeResume,
               calls |-> BatchCalls, logging |-> FALSE]

(* the two parents are interchangeable: the first session is the one p1
   asks for *)
NextParents ==
  \/ \E p \in TwoParents :
       (nextSession = 1 => p = "p1") /\ DelegateStore("explore", p)
  \/ \E c \in InFlight : DelegateArm(c)
  \/ \E p \in BagToSet(prompts), m \in ErrorMessages : PromptRejected(p, m)
  \/ \E id \in Ids : Resume(id)
  \/ \E id \in Ids : CancelEnter(id)
  \/ \E c \in InFlight : CancelAbortResolved(c)
  \/ \E t \in timers : TimerFire(t)
  \/ \E c \in InFlight : TimeoutSet(c)
  \/ \E c \in InFlight : TimeoutAbortResolved(c)
  \/ \E id \in Ids : SessionIdle(id)
  \/ \E c \in InFlight : IdleSet(c)
  \/ \E c \in InFlight : IdleMessagesResolved(c)
  \/ \E p \in TwoParents : CancelAllEnter(p)
  \/ \E c \in InFlight : CancelAllAbortSettled(c)

SpecParents == InitParents /\ [][NextParents]_vars

(* ---- the getters of DelegationManager ---- *)

(* listAllDelegations(): the ids of all delegations; the order of the list
   is not modelled *)
ListAllDelegations ==
  /\ ret' = Returned("listAllDelegations", UnknownId, Known, "none", "listed")
  /\ Quiet
  /\ UNCHANGED << delegations, pendingByParent, calls, timers, prompts,
                  nextSession, resumes, limits >>

(* faulty variant: the set of the parent is created when it is absent *)
GetPendingCountCreates(parent) ==
  /\ pendingByParent' =
       MapSet(pendingByParent, parent,
              IF parent \in DOMAIN pendingByParent
                THEN pendingByParent[parent] ELSE {})
  /\ ret' = Returned("getPendingCount", UnknownId,
                     [parent |-> parent,
                      count |-> IF parent \in DOMAIN pendingByParent
                                  THEN Cardinality(pendingByParent[parent])
                                  ELSE 0],
                     "none", "counted")
  /\ Quiet
  /\ UNCHANGED << delegations, calls, timers, prompts, nextSession, resumes,
                  limits >>

(* getPendingCount(parentSessionID): pendingSet ? pendingSet.size : 0 *)
GetPendingCount(parent) ==
  /\ ret' = Returned("getPendingCount", UnknownId,
                     [parent |-> parent,
                      count |-> IF parent \in DOMAIN pendingByParent
                                  THEN Cardinality(pendingByParent[parent])
                                  ELSE 0],
                     "none", "counted")
  /\ Quiet
  /\ UNCHANGED << delegations, pendingByParent, calls, timers, prompts,
                  nextSession, resumes, limits >>

(* getRunningDelegations(): filter((d) => d.status === "running") *)
GetRunningDelegations ==
  /\ ret' = Returned("getRunningDelegations", UnknownId,
                     {id \in Known : Running(id)}, "none", "listed")
  /\ Quiet
  /\ UNCHANGED << delegations, pendingByParent, calls, timers, prompts,
                  nextSession, resumes, limits >>

(* findBySession(sessionID) called from outside *)
FindBySessionCall(sessionID) ==
  /\ ret' = Returned("findBySession", sessionID, FindBySession(sessionID),
                     StatusOf(sessionID), "looked up")
  /\ Quiet
  /\ UNCHANGED << delegations, pendingByParent, calls, timers, prompts,
                  nextSession, resumes, limits >>

(* ---- the getter scenario: reads and getters at every point of a
   lifecycle ---- *)

InitGetters ==
  /\ InitState
  /\ limits = [deleg |-> MaxDeleg, resume |-> 0, calls |-> BatchCalls,
               logging |-> TRUE]

NextGetters ==
  \/ DelegateStore("explore", "p1")
  \/ \E c \in InFlight : DelegateArm(c)
  \/ \E p \in BagToSet(prompts), m \in ErrorMessages : PromptRejected(p, m)
  \/ \E id \in Ids : CancelEnter(id)
  \/ \E c \in InFlight : CancelAbortResolved(c)
  \/ \E t \in timers : TimerFire(t)
  \/ \E c \in InFlight : TimeoutSet(c)
  \/ \E c \in InFlight : TimeoutAbortResolved(c)
  \/ \E id \in Ids : SessionIdle(id)
  \/ \E c \in InFlight : IdleSet(c)
  \/ \E c \in InFlight : IdleMessagesResolved(c)
  \/ \E id \in Ids, args \in DispatchArgs, fetched \in {Resolved(OneReply), Rejected} :
       ReadDelegation(id, args, fetched)
  \/ \E p \in TwoParents : ListDelegations(p)
  \/ ListAllDelegations
  \/ \E p \in TwoParents : GetPendingCount(p)
  \/ GetRunningDelegations
  \/ \E id \in Ids : FindBySessionCall(id)

SpecGetters == InitGetters /\ [][NextGetters]_vars

(***************************************************************************)
(* Properties                                                              *)
(***************************************************************************)

ParentOf(id) == delegations[id].parentSessionID

(* C1: in every reachable state, the states at the suspension points of
   delegate, resume, cancel, handleTimeout, handleSessionIdle and of the
   prompt-rejection continuation included, each delegation in the map has
   completedAt set iff its status is not running. *)
CompletedAtIffNotRunning ==
  \A id \in Known :
    (delegations[id].completedAt # {}) <=> (delegations[id].status # "running")

(* cancel() is suspended at the abort and its record is already closed *)
CancelSuspendedWithDate ==
  \E c \in InFlight :
    /\ c.op = "cancel" /\ c.pc = "abort"
    /\ delegations[c.id].status = "cancelled"
    /\ delegations[c.id].completedAt # {}

(* C2: a status changes from non-running to running only in resume(), and
   only from cancelled or error; resume() on a completed or timeout
   delegation does not put it back to running. *)
RunningOnlyByResumeFromCancelledOrError ==
  [][ \A id \in Known :
        (delegations[id].status # "running"
           /\ delegations'[id].status = "running")
        => (ret'.op = "resume" /\ ret'.id = id
              /\ delegations[id].status \in {"cancelled", "error"}) ]_vars

(* C3: when the idle signal for id is delivered while cancel(id) awaits the
   remote abort, and nothing but cancel and idle signals touches the
   delegation, the status is cancelled from the entry of cancel() up to and
   at its return, never completed. *)
CancelWinsOverIdle ==
  /\ \A c \in InFlight :
       (c.op = "cancel" /\ c.idleSeen /\ ~c.other)
       => delegations[c.id].status = "cancelled"
  /\ (ret.op = "cancel" /\ ret.arg = "idle raced") => ret.was = "cancelled"

(* cancel() has returned true after an idle signal raced its abort *)
CancelReturnedAfterIdleRace ==
  /\ ret.op = "cancel" /\ ret.arg = "idle raced" /\ ret.result = "true"
  /\ StatusOf(ret.id) = "cancelled"

(* the notifications sent into parent p, oldest first *)
SentTo(p) == SelectSeq(sent, LAMBDA n : n.parent = p)

ChildrenOf(p) == {d \in Known : delegations[d].parentSessionID = p}

(* all of p's delegations were stored before its first notification, and
   each notification reports another delegation *)
OneBatch(p) ==
  LET L == SentTo(p)
  IN /\ \A i \in 1..Len(L) : L[i].siblings = Cardinality(ChildrenOf(p))
     /\ \A i, j \in 1..Len(L) : L[i].id = L[j].id => i = j

(* C4: for a parent with N delegations running concurrently and resolved
   one after another, the k-th resolution for k < N sends a "still in
   progress" notice with remaining count N - k, and the N-th sends the one
   "all complete" digest, which lists all N delegations. *)
BatchedNotifications ==
  \A p \in Parents :
    LET L == SentTo(p)
        N == Cardinality(ChildrenOf(p))
    IN OneBatch(p) =>
         \A i \in 1..Len(L) :
           IF i < N
             THEN ~L[i].allComplete /\ L[i].remaining = N - i
             ELSE /\ i = N
                  /\ L[i].allComplete
                  /\ L[i].listed = ChildrenOf(p)

(* a whole batch has been reported *)
BatchReported ==
  /\ Cardinality(ChildrenOf("p1")) = BatchSize
  /\ OneBatch("p1")
  /\ Len(SentTo("p1")) = BatchSize
  /\ SentTo("p1")[BatchSize].allComplete
  /\ ~SentTo("p1")[1].allComplete

(* the suspended calls that stand for a handler that is acting *)
Handlers(bag) == {c \in BagToSet(bag) : c.op \in {"idle", "timeout"}}

(* C5: handleTimeout(id) and handleSessionIdle(id) invoked on an unknown
   id or on a delegation that is not running change no field of any
   delegation, leave the pending index alone, start no handler (so issue no
   abort) and send no notification. *)
HandlersIgnoreNonRunning ==
  [][ (ret'.op \in {"handleTimeout", "handleSessionIdle"}
         /\ ~Running(ret'.id))
      => /\ ret'.result = "noop"
         /\ delegations' = delegations
         /\ pendingByParent' = pendingByParent
         /\ BagCardinality(calls') = BagCardinality(calls)
         /\ \A c \in Handlers(calls') : CopiesIn(c, calls') = CopiesIn(c, calls)
         /\ note' = NoNote ]_vars

(* a second idle signal for a delegation the first one completed *)
IdleIgnoredOnCompleted ==
  /\ ret.op = "handleSessionIdle" /\ ret.result = "noop"
  /\ ret.was = "completed"
  /\ StatusOf(ret.id) = "completed"

(* C6: resume(id) of a cancelled delegation leaves it running, with
   completedAt and error cleared and its id in its parent's pending set. *)
ResumeAfterCancel ==
  [][ \A id \in Known :
        (delegations[id].status = "cancelled"
           /\ ret'.op = "resume" /\ ret'.id = id /\ ret'.result = "resumed")
        => /\ delegations'[id].status = "running"
           /\ delegations'[id].completedAt = {}
           /\ delegations'[id].error = {}
           /\ ParentOf(id) \in DOMAIN pendingByParent'
           /\ id \in pendingByParent'[ParentOf(id)] ]_vars

(* resume() has just restarted a delegation that cancel() had closed *)
ResumedAfterCancel ==
  /\ ret.op = "resume" /\ ret.was = "cancelled" /\ ret.result = "resumed"
  /\ Running(ret.id)
  /\ ret.id \in pendingByParent[ParentOf(ret.id)]
  /\ \A c \in InFlight : c.id # ret.id

(* C7: a successful delegate() stores exactly one new record, whose id and
   sessionID are the id session.create() returned, running, without
   completedAt and error, and adds that id to the pending set of its parent,
   creating the set when absent; no two records share a session id. *)
DelegateStoresOneRecord ==
  [][ /\ nextSession' # nextSession
        => LET id == nextSession
               parent == delegations'[id].parentSessionID
           IN /\ id \notin Known
              /\ DOMAIN delegations' = Known \cup {id}
              /\ \A x \in Known : delegations'[x] = delegations[x]
              /\ delegations'[id].id = id
              /\ delegations'[id].sessionID = id
              /\ delegations'[id].status = "running"
              /\ delegations'[id].completedAt = {}
              /\ delegations'[id].error = {}
              /\ DOMAIN pendingByParent' = DOMAIN pendingByParent \cup {parent}
              /\ \A q \in DOMAIN pendingByParent :
                   q # parent => pendingByParent'[q] = pendingByParent[q]
              /\ pendingByParent'[parent] =
                   (IF parent \in DOMAIN pendingByParent
                      THEN pendingByParent[parent] ELSE {}) \cup {id}
      /\ \A a, b \in DOMAIN delegations' :
           delegations'[a].sessionID = delegations'[b].sessionID => a = b
    ]_vars

(* two records, each under its own session id, both pending *)
TwoRecordsStored ==
  \E a, b \in Known :
    /\ a # b
    /\ delegations[a].sessionID = a /\ delegations[b].sessionID = b
    /\ {a, b} \subseteq pendingByParent[ParentOf(a)]

PromptPending(id) == \E p \in BagToSet(prompts) : p.id = id

DelegateSuspended(id) ==
  \E c \in InFlight : c.op = "delegate" /\ c.id = id

(* C8: delegate() does not wait for the prompt it dispatches: it returns
   the record, running unless another operation resolved it meanwhile,
   while that prompt is unsettled, and it returns in every execution in
   which no prompt ever settles. *)
DelegateDoesNotAwaitPrompt ==
  /\ [][ \A c \in InFlight :
           (c.op = "delegate" /\ ret'.op = "delegate" /\ ret'.id = c.id
              /\ ret'.result = "returned")
           => /\ \E p \in BagToSet(prompts') : p.id = c.id
              /\ c.other \/ ret'.was = "running" ]_vars
  /\ \A id \in 1..MaxDeleg :
       DelegateSuspended(id)
         ~> (ret.op = "delegate" /\ ret.id = id /\ ret.result = "returned")

(* delegate() has returned the running record and its prompt is unsettled *)
DelegateReturnedPromptPending ==
  /\ ret.op = "delegate" /\ ret.result = "returned" /\ ret.was = "running"
  /\ Running(ret.id)
  /\ PromptPending(ret.id)
  /\ ~DelegateSuspended(ret.id)

(* C9: when the prompt dispatched by delegate() rejects while the
   delegation is running, the delegation goes to error with the rejection
   message and completedAt set, its id leaves the parent's pending set and
   the parent is notified; delegate() has returned by then. *)
PromptRejectionFailsDelegation ==
  [][ (ret'.op = "delegate.catch" /\ Running(ret'.id))
      => LET id == ret'.id
         IN /\ delegations'[id].status = "error"
            /\ delegations'[id].error = {ret'.arg}
            /\ delegations'[id].completedAt # {}
            /\ id \notin pendingByParent'[ParentOf(id)]
            /\ note'.id = id
            /\ note'.parent = ParentOf(id)
            /\ note'.status = "error"
            /\ ~DelegateSuspended(id) ]_vars

(* the rejection has just moved a running delegation to error *)
RunningFailedByRejection ==
  /\ ret.op = "delegate.catch" /\ ret.was = "running"
  /\ StatusOf(ret.id) = "error"
  /\ delegations[ret.id].startedAt = 0
  /\ note.id = ret.id

(* C10: a failing delegate() changes nothing: an agent that is not in the
   catalog makes it fail with AgentNotFound before a session is created,
   a session.create() without id with SessionCreateFailed; no record is
   stored, no pending set is created or changed, no watchdog is armed, no
   prompt is dispatched and no notification is sent. *)
FailedDelegateChangesNothing ==
  [][ /\ (ret'.op = "delegate" /\ ret'.result # "returned")
        => /\ ret'.result \in {"AgentNotFound", "SessionCreateFailed"}
           /\ (ret'.result = "AgentNotFound") <=> (FindAgent(ret'.arg) = {})
           /\ UNCHANGED << delegations, pendingByParent, calls, timers,
                           prompts, nextSession, sent >>
           /\ note' = NoNote
      /\ \A id \in (DOMAIN delegations') \ Known :
           FindAgent(delegations'[id].agent) # {} ]_vars

(* delegate() has just failed for an unknown agent, next to a live record *)
DelegateFailedOnGhost ==
  /\ ret.op = "delegate" /\ ret.result = "AgentNotFound" /\ ret.arg = "ghost"
  /\ \E id \in Known : Running(id)

(* C11: delegate() succeeds only for an agent name that the catalog holds
   with mode subagent, all or unset: every record it stores names such an
   agent, and a call for a name the catalog holds only with another mode
   fails with AgentNotFound and creates no session. *)
OnlySubagentsDelegated ==
  [][ /\ \A id \in (DOMAIN delegations') \ Known :
           \E a \in Catalog :
             a.name = delegations'[id].agent /\ a.mode \in SubagentModes
      /\ (ret'.op = "delegate"
            /\ ~\E a \in Catalog : a.name = ret'.arg /\ a.mode \in SubagentModes)
         => (ret'.result = "AgentNotFound" /\ nextSession' = nextSession)
    ]_vars

(* the cancel() calls for id that await their abort *)
Aborting(bag, id) ==
  CopiesIn([op |-> "cancel", id |-> id],
           BagOfAll(LAMBDA c : [op |-> c.op, id |-> c.id], bag))

(* C12: cancel(id) on an unknown id or on a delegation that is not running
   returns false and has no effect: no delegation field and no pending set
   changes, no abort is issued (no cancel() starts to await one) and no
   notification is sent. *)
CancelRefusedChangesNothing ==
  [][ /\ (ret'.op = "cancel" /\ ret'.result = "false")
        => /\ ~Running(ret'.id)
           /\ UNCHANGED << delegations, pendingByParent, calls, timers,
                           prompts, sent >>
           /\ note' = NoNote
      /\ \A id \in Ids :
           ~Running(id) => Aborting(calls', id) <= Aborting(calls, id) ]_vars

(* a second cancel() is refused while the first one awaits its abort and
   the id is still tracked as pending *)
CancelRefusedWhileAborting ==
  /\ ret.op = "cancel" /\ ret.result = "false" /\ ret.was = "cancelled"
  /\ ret.id \in pendingByParent[ParentOf(ret.id)]
  /\ Aborting(calls, ret.id) = 1

(* C13, as stated: in every state in which a cancel(id) awaits its remote
   abort, the delegation's status is cancelled and completedAt is set. *)
CancelledWhileAbortOutstanding ==
  \A c \in InFlight :
    (c.op = "cancel" /\ c.pc = "abort")
    => /\ delegations[c.id].status = "cancelled"
       /\ delegations[c.id].completedAt # {}

(* C13, amended: cancel() writes status = cancelled and completedAt before
   it issues the remote abort, so the status is cancelled when the abort is
   sent; it stays cancelled while the abort is outstanding as long as no
   resume(), no prompt rejection and no handler that had passed its status
   check before the cancel writes the record. *)
CancelledBeforeAbort ==
  /\ [][ \A id \in Ids :
           Aborting(calls', id) > Aborting(calls, id)
           => /\ Running(id)
              /\ delegations'[id].status = "cancelled"
              /\ delegations'[id].completedAt # {} ]_vars
  /\ [](\A c \in InFlight :
          (c.op = "cancel" /\ c.pc = "abort" /\ ~c.other)
          => /\ delegations[c.id].status = "cancelled"
             /\ delegations[c.id].completedAt # {})

(* the abort is outstanding, nothing else has written the record, and the
   prompt and the watchdog of the delegation are still there *)
AbortOutstandingCancelled ==
  \E c \in InFlight :
    /\ c.op = "cancel" /\ c.pc = "abort" /\ ~c.other /\ ~c.idleSeen
    /\ delegations[c.id].status = "cancelled"
    /\ PromptPending(c.id)
    /\ \E t \in timers : t.id = c.id

(* what cancel(id) leaves behind when it is over *)
CancelSucceeded(c) ==
  /\ ret'.op = "cancel" /\ ret'.id = c.id /\ ret'.result = "true"
  /\ calls' = calls (-) One(c)
  /\ delegations' = delegations
  /\ c.id \notin pendingByParent'[ParentOf(c.id)]
  /\ note'.id = c.id /\ note'.parent = ParentOf(c.id)
  /\ ~c.other => /\ delegations'[c.id].status = "cancelled"
                 /\ note'.status = "cancelled"

(* C14: cancel(id) on a running delegation succeeds whether the remote
   abort resolves or rejects: in both cases the status is the cancelled that
   cancel() wrote (unless another operation has written the record since),
   the id is removed from the parent's pending set, the parent notification
   is sent, true is returned and no exception escapes. *)
CancelSucceedsEitherWay ==
  /\ [][ \A c \in InFlight : CancelAbortResolved(c) => CancelSucceeded(c) ]_vars
  /\ [][ \A c \in InFlight : CancelAbortRejected(c) => CancelSucceeded(c) ]_vars
  /\ [][ ret'.op = "cancel" => ret'.result \in {"true", "false"} ]_vars

(* cancel() has returned true, the parent holds its notification and the
   id is no longer pending *)
CancelReturnedTrue ==
  /\ ret.op = "cancel" /\ ret.result = "true" /\ ret.arg = "none"
  /\ StatusOf(ret.id) = "cancelled"
  /\ note.id = ret.id /\ note.status = "cancelled"
  /\ ret.id \notin pendingByParent[ParentOf(ret.id)]

(* C15: completed and timeout are terminal and a terminal outcome is not
   overwritten by another cause: once the status is completed, timeout or
   cancelled, no step changes it to a different non-running status. *)
TerminalOutcomeKept ==
  [][ \A id \in Known :
        delegations[id].status \in {"completed", "timeout", "cancelled"}
        => delegations'[id].status \in {delegations[id].status, "running"}
    ]_vars

(* C16: resume(id) fails with NotFound for an unknown id and with
   InvalidState for a delegation that is running; in both cases no
   delegation field and no pending set changes and no prompt is sent; and
   resume() goes through only for a known delegation that is not running. *)
ResumeRefusedChangesNothing ==
  [][ ret'.op = "resume"
      => /\ (ret'.id \notin Known) <=> (ret'.result = "NotFound")
         /\ Running(ret'.id) <=> (ret'.result = "InvalidState")
         /\ ret'.result \in {"NotFound", "InvalidState", "resumed"}
         /\ ret'.result # "resumed"
            => /\ UNCHANGED << delegations, pendingByParent, calls, timers,
                               prompts, resumes, sent >>
               /\ note' = NoNote ]_vars

(* resume() has just been refused for a running delegation whose first
   prompt is still unsettled *)
ResumeRefusedOnRunning ==
  /\ ret.op = "resume" /\ ret.result = "InvalidState"
  /\ Running(ret.id)
  /\ BagCardinality(prompts) = 1
  /\ ret.id \in pendingByParent[ParentOf(ret.id)]

(* C17: a delegation put back to running by resume() that receives no idle
   signal, cancel or prompt rejection is eventually moved to timeout by a
   watchdog: a resumed delegation does not stay running for ever. *)
ResumedEventuallyLeavesRunning ==
  \A id \in 1..LifeDeleg :
    (Running(id) /\ delegations[id].startedAt > 0) ~> ~Running(id)

(* handleTimeout(id) has passed its status check *)
TimeoutEntered(id) ==
  \E c \in InFlight : c.op = "timeout" /\ c.id = id /\ c.pc = "log"

(* C18: a delegation that is running when its watchdog fires is moved to
   timeout with completedAt set and the timed-out message recorded, an abort
   is issued whose outcome is ignored, and the parent is notified; so a
   running delegation with an armed watchdog eventually leaves running, and
   one whose watchdog found it running eventually reaches timeout. *)
WatchdogTimesOut ==
  /\ [][ ret'.op = "handleTimeout"
         => (ret'.result = "entered" <=> Running(ret'.id))
            /\ (ret'.result = "entered"
                  <=> \E x \in BagToSet(calls') \ InFlight :
                        x.op = "timeout" /\ x.pc = "log") ]_vars
  /\ [][ \A c \in InFlight :
           TimeoutSet(c)
           => /\ delegations'[c.id].status = "timeout"
              /\ delegations'[c.id].completedAt # {}
              /\ delegations'[c.id].error = {TimeoutMessage}
              /\ \E x \in BagToSet(calls') :
                   x.op = "timeout" /\ x.id = c.id /\ x.pc = "abort" ]_vars
  /\ [][ \A c \in InFlight :
           (TimeoutAbortResolved(c) \/ TimeoutAbortRejected(c))
           => /\ calls' = calls (-) One(c)
              /\ delegations' = delegations
              /\ c.id \notin pendingByParent'[ParentOf(c.id)]
              /\ note'.id = c.id /\ note'.parent = ParentOf(c.id)
              /\ note'.status = delegations[c.id].status ]_vars
  /\ \A id \in 1..LifeDeleg :
       /\ TimeoutEntered(id) ~> (StatusOf(id) = "timeout")
       /\ (Running(id) /\ \E t \in timers : t.id = id) ~> ~Running(id)

(* the watchdog has timed out a delegation of the first run and the parent
   has just been told *)
TimedOutAndNotified ==
  \E id \in Known :
    /\ delegations[id].status = "timeout"
    /\ delegations[id].startedAt = 0
    /\ delegations[id].error = {TimeoutMessage}
    /\ delegations[id].completedAt # {}
    /\ note.id = id /\ note.status = "timeout"
    /\ id \notin pendingByParent[ParentOf(id)]

(* the parent's pending set as the last notification left it *)
PendingLeft(n) ==
  IF n.parent \in DOMAIN pendingByParent
    THEN pendingByParent[n.parent] ELSE {}

(* C19: every notification sent into a parent session carries noReply =
   false exactly when the parent's pending set is empty after the reported
   delegation was removed from it, and noReply = true otherwise. *)
NoReplyUnlessAllComplete ==
  note # NoNote
  => /\ note.id \notin PendingLeft(note)
     /\ note.noReply <=> (PendingLeft(note) # {})
     /\ note.allComplete <=> ~note.noReply

(* an intermediate notice: a sibling is still pending *)
IntermediateNoticeSent ==
  /\ note # NoNote
  /\ note.noReply
  /\ PendingLeft(note) # {}
  /\ note.remaining = 1

(* an operation of kind op on id is suspended at an await *)
Suspended(op, id) == \E c \in InFlight : c.op = op /\ c.id = id

(* C20: notifying the parent never blocks the operation that triggered it.
   No prompt into a parent session ever resolves here; the step that sends
   the notification ends its operation, and cancel(), handleTimeout() and
   handleSessionIdle() each run to completion once their own remote call
   has settled; the prompt-rejection continuation is over in its one step. *)
NotifyDoesNotBlock ==
  /\ [][ note' # NoNote
         => /\ BagCardinality(calls') <= BagCardinality(calls)
            /\ \A c \in BagToSet(calls') :
                 c.id = note'.id => \E x \in InFlight : x.op = c.op /\ x.pc = c.pc
            /\ ret'.op \in {"delegate.catch", "resume.catch"}
               => calls' = BagOfAll(LAMBDA c : MarkOther(c, {"cancel"}, note'.id),
                                    calls) ]_vars
  /\ \A id \in 1..LifeDeleg :
       /\ Suspended("cancel", id)
            ~> (ret.op = "cancel" /\ ret.id = id /\ ret.result = "true")
       /\ Suspended("timeout", id) ~> ~Suspended("timeout", id)
       /\ Suspended("idle", id) ~> ~Suspended("idle", id)

(* a handler has just told the parent and is over; nothing is suspended *)
NotifiedAndOver ==
  /\ note # NoNote
  /\ note.status \in {"completed", "timeout"}
  /\ ~Suspended("idle", note.id) /\ ~Suspended("timeout", note.id)
  /\ calls = EmptyBag

(* what a handler for c.id leaves behind when its remote call has settled *)
HandlerOver(c) ==
  /\ calls' = calls (-) One(c)
  /\ ret'.result # "threw"
  /\ delegations' = delegations
  /\ delegations[c.id].status # "running"
  /\ c.id \notin pendingByParent'[ParentOf(c.id)]
  /\ note'.id = c.id /\ note'.status = delegations[c.id].status

(* C21: the lifecycle handlers never propagate a failure: handleTimeout
   whose abort rejects, handleSessionIdle whose message read rejects and
   notifyParent whose delivery rejects complete without throwing; the
   status the handler wrote before its remote call (timeout, completed) is
   not undone by the rejection, the delegation is left resolved and its id
   is removed from the pending set. *)
HandlersSwallowFailures ==
  /\ [][ \A c \in InFlight :
           /\ TimeoutSet(c) => delegations'[c.id].status = "timeout"
           /\ IdleSet(c) => delegations'[c.id].status = "completed" ]_vars
  /\ [][ \A c \in InFlight : TimeoutAbortRejected(c) => HandlerOver(c) ]_vars
  /\ [][ \A c \in InFlight : IdleMessagesRejected(c) => HandlerOver(c) ]_vars
  /\ [][ ret'.op = "notifyParent.catch"
         => /\ ret'.result = "swallowed"
            /\ UNCHANGED << delegations, pendingByParent, calls, timers,
                            prompts, sent >> ]_vars

(* the delivery of the notice about a completed delegation has just been
   rejected and swallowed; the delegation stays completed and reported *)
DeliveryRejectionSwallowed ==
  /\ ret.op = "notifyParent.catch" /\ ret.result = "swallowed"
  /\ StatusOf(ret.id) = "completed"
  /\ ret.id \notin pendingByParent[ParentOf(ret.id)]
  /\ calls = EmptyBag

(* C22: readDelegation dispatches on the current status: an unknown id
   fails with NotFound; a running delegation yields the "still running"
   text and one in error, cancelled or timeout the status summary, both
   without fetching messages or calling AI analysis; only a completed
   delegation reaches the simple, full and ai paths, and an unrecognised
   mode on a completed delegation (read without ai) yields the "invalid
   mode" text; nothing but NotFound is thrown and no state changes. *)
ReadDispatchesOnStatus ==
  [][ ret'.op = "readDelegation"
      => LET status == StatusOf(ret'.id)
             args == ret'.arg.args
         IN /\ ret'.was = status
            /\ (ret'.result = "NotFound") <=> (ret'.id \notin Known)
            /\ (ret'.result = "still running") <=> (status = "running")
            /\ (ret'.result = "ended")
                 <=> (status \in {"error", "cancelled", "timeout"})
            /\ ret'.result \in {"NotFound", "still running", "ended"}
                 => ~ret'.arg.fetch
            /\ ret'.result \in {"simple", "full", "ai"}
                 => status = "completed"
            /\ (status = "completed" /\ ~args.ai
                  /\ args.mode \notin {"none", "simple", "full"})
                 => (ret'.result = "invalid mode" /\ ~ret'.arg.fetch)
            /\ (status = "completed" /\ ~args.ai /\ args.mode = "full")
                 => ret'.result = "full"
            /\ (status = "completed" /\ ~args.ai
                  /\ args.mode \in {"none", "simple"})
                 => ret'.result = "simple"
            /\ UNCHANGED << delegations, pendingByParent, calls, timers,
                            prompts, sent >>
            /\ note' = NoNote ]_vars

(* a timed-out delegation has just been read: the summary, no fetch *)
ReadOfTimedOut ==
  /\ ret.op = "readDelegation" /\ ret.result = "ended"
  /\ ret.was = "timeout"
  /\ ~ret.arg.fetch
  /\ delegations[ret.id].error = {TimeoutMessage}

(* the positions of the text parts of a message, and the n-th of them *)
TextPositions(m) == {k \in 1..Len(m.parts) : m.parts[k].type = "text"}

NthTextPosition(m, n) ==
  CHOOSE k \in TextPositions(m) :
    Cardinality({j \in TextPositions(m) : j < k}) = n - 1

(* the positions of the assistant-authored messages of a list *)
AssistantPositions(ms) == {i \in 1..Len(ms) : ms[i].role = "assistant"}

LastAssistant(ms) ==
  CHOOSE i \in AssistantPositions(ms) : \A j \in AssistantPositions(ms) : j <= i

SimpleDiagnostics ==
  {"error retrieving result", "no output", "no assistant response",
   "no text content"}

(* C23: for a completed delegation read in simple mode the result body is
   the text parts, in order, of the last assistant-authored message of the
   fetched list and of no other message; a rejected fetch, an answer without
   data, an empty list, a list without assistant message and a last
   assistant message without text part each yield a diagnostic text and no
   exception. *)
SimpleResultIsLastAssistantText ==
  (ret.op = "readDelegation" /\ ret.result = "simple")
  => LET f == ret.arg.fetched
         out == ret.arg.out
         ms == DataOf(f)
         hasText == /\ f.settled = "resolved" /\ f.data # {}
                    /\ AssistantPositions(ms) # {}
                    /\ TextPositions(ms[LastAssistant(ms)]) # {}
     IN /\ ret.was = "completed"
        /\ ret.arg.fetch
        /\ IF hasText
             THEN LET m == ms[LastAssistant(ms)]
                  IN /\ out.kind = "task result"
                     /\ Len(out.body) = Cardinality(TextPositions(m))
                     /\ \A n \in 1..Len(out.body) :
                          out.body[n] = m.parts[NthTextPosition(m, n)].text
             ELSE /\ out.kind \in SimpleDiagnostics
                  /\ out.body = NoBody
        /\ (out.kind = "error retrieving result") <=> (f.settled = "rejected")

(* two assistant messages were fetched and the body is the text of the
   second one only *)
LastOfTwoAssistantsRead ==
  /\ ret.op = "readDelegation" /\ ret.result = "simple"
  /\ ret.arg.fetched.data # {}
  /\ LET ms == DataOf(ret.arg.fetched)
     IN /\ Len(ms) = 2
        /\ ms[1].role = "assistant" /\ ms[2].role = "assistant"
        /\ BodyOf(ms[1]) = << "a" >>
        /\ ret.arg.out.body = << "b" >>

(* C24: the tools delegate, delegation_read, delegation_list,
   delegation_cancel and delegation_resume never throw to the caller: every
   failure of the manager operation behind them (AgentNotFound,
   SessionCreateFailed, NotFound, InvalidState, a rejected remote call)
   comes back as a text that tells the failure. *)
ToolsNeverThrow ==
  ret.op \in ToolOps
  => LET out == ToolOutcome(ret)
     IN /\ out.kind = "text"
        /\ Thrown(ret) => (out.failed /\ out.error = ret.result)
        /\ (ret.op = "readDelegation" /\ ~Thrown(ret))
             => out.text = ret.arg.out.kind

(* delegation_read of an unknown id has just answered with the error text *)
ReadToolReportsNotFound ==
  /\ ret.op = "readDelegation" /\ ret.result = "NotFound"
  /\ ToolOutcome(ret) = ToolText("Error reading delegation", TRUE, "NotFound")
  /\ Known # {}

(* the ids in a list *)
Range(s) == {s[i] : i \in 1..Len(s)}

(* C25: cancelAll(p), run with no other operation interleaved, cancels the
   delegations that have parent p and are running, and no other: when it
   returns no delegation of p is running, the returned list holds exactly
   the ids that were running under p at the call, each once, all of them
   cancelled, and no step of it changes a delegation or the pending set of
   another parent. *)
CancelAllCancelsRunningOfParent ==
  /\ [][ ret'.op = "cancelAll"
         => LET p == ret'.arg.parent
                list == ret'.arg.cancelled
            IN /\ \A id \in Known :
                    delegations'[id].parentSessionID = p
                    => delegations'[id].status # "running"
               /\ Range(list) = ret'.arg.was
               /\ Len(list) = Cardinality(ret'.arg.was)
               /\ \A id \in Range(list) :
                    /\ delegations'[id].status = "cancelled"
                    /\ id \notin pendingByParent'[p] ]_vars
  /\ [][ \A p \in TwoParents :
           ((\E c \in InFlight : c.op = "cancelAll" /\ c.parent = p)
              \/ (ret'.op = "cancelAll" /\ ret'.arg.parent = p))
           => /\ \A id \in Known :
                   delegations[id].parentSessionID # p
                   => delegations'[id] = delegations[id]
              /\ \A q \in DOMAIN pendingByParent :
                   q # p => pendingByParent'[q] = pendingByParent[q]
              /\ DOMAIN delegations' = Known ]_vars

(* cancelAll has returned two ids while a delegation of the other parent
   goes on running *)
CancelAllReturnedTwo ==
  /\ ret.op = "cancelAll" /\ Len(ret.arg.cancelled) = 2
  /\ \E id \in Known :
       delegations[id].parentSessionID # ret.arg.parent /\ Running(id)

(* the delegations of the notified parent that are running *)
RunningOf(n) ==
  {id \in Known : delegations[id].parentSessionID = n.parent /\ Running(id)}

(* C26 as stated: the remaining count of an intermediate notice equals the
   number of delegations of that parent whose status is running when the
   notice is composed. *)
RemainingCountsRunning ==
  (note # NoNote /\ ~note.allComplete)
  => note.remaining = Cardinality(RunningOf(note))

(* C26: the remaining count of an intermediate notice is the size of the
   parent's pending set after the reported id has left it. Every running
   delegation of the parent is in that set, and so is every delegation whose
   status a handler has already changed but whose own notification that
   handler has not composed yet: the count is the number of running
   delegations plus the number of those. *)
RemainingCountsUnreported ==
  (note # NoNote /\ ~note.allComplete)
  => /\ note.remaining = Cardinality(PendingLeft(note))
     /\ RunningOf(note) \subseteq PendingLeft(note)
     /\ \A id \in PendingLeft(note) \ RunningOf(note) :
          \E c \in InFlight : c.id = id /\ c.op \in {"idle", "cancel", "timeout"}
     /\ note.remaining >= Cardinality(RunningOf(note))

(* a notice reports one task in progress although no delegation of the
   parent is running: the sibling has changed status and is about to be
   reported *)
NoticeCountsEndedSibling ==
  /\ note # NoNote /\ ~note.allComplete
  /\ note.remaining = 1
  /\ RunningOf(note) = {}

(* C27: resume() creates no session and no record, whether it goes through
   or is refused. When it goes through, it adds one prompt that is addressed
   to the session of the delegation, switches off the tools delegate()
   switches off, and carries the caller's text, or the default text when the
   caller gives none (an empty text counts as none); id, sessionID and
   parentSessionID of the record stay as they are. *)
ResumeReusesSession ==
  [][ ret'.op = "resume"
      => /\ nextSession' = nextSession
         /\ DOMAIN delegations' = DOMAIN delegations
         /\ ret'.result = "resumed"
            => LET d == delegations[ret'.id]
               IN /\ delegations'[ret'.id].id = d.id
                  /\ delegations'[ret'.id].sessionID = d.sessionID
                  /\ delegations'[ret'.id].parentSessionID = d.parentSessionID
                  /\ \E p \in BagToSet(prompts') :
                       /\ prompts' = prompts (+) One(p)
                       /\ p.id = d.id
                       /\ p.session = d.sessionID
                       /\ p.tools = PromptBody(d).tools
                       /\ p.text = IF ret'.arg \in {"none", ""}
                                     THEN DefaultPrompt ELSE ret'.arg ]_vars

(* the second of two delegations has been resumed with a text of the
   caller, which is on its way to its session *)
ResumedWithCallerPrompt ==
  /\ ret.op = "resume" /\ ret.result = "resumed" /\ ret.arg = "more"
  /\ ret.id = 2 /\ Cardinality(Known) = 2
  /\ \E p \in BagToSet(prompts) :
       p.session = delegations[2].sessionID /\ p.text = "more"

(* the messages in the order of their timestamps, those of equal time in
   the order fetched *)
RECURSIVE ByTimestamp(_)
ByTimestamp(ms) ==
  IF Len(ms) = 0 THEN << >>
  ELSE LET init == ByTimestamp(SubSeq(ms, 1, Len(ms) - 1))
           m == ms[Len(ms)]
           k == Cardinality({i \in 1..Len(init) : init[i].time <= m.time})
       IN SubSeq(init, 1, k) \o << m >> \o SubSeq(init, k + 1, Len(init))

(* a full read of a completed delegation that got messages *)
FullRead ==
  /\ ret.op = "readDelegation" /\ ret.result = "full"
  /\ ret.was = "completed"
  /\ ret.arg.out.kind = "full session"

(* C28 as stated: a full read of a completed delegation returns the
   messages strictly after the one named by since_message_id in timestamp
   order (all of them when the id is absent or not found), at most
   min(limit, 100) of them whenever a limit is given, and has-more is true
   exactly when messages remain beyond those returned. *)
FullReadPagesByLimit ==
  FullRead
  => LET args == ret.arg.args
         sorted == ByTimestamp(DataOf(ret.arg.fetched))
         after == Since(sorted, args.since)
         out == ret.arg.out
         n == Len(out.returned)
     IN /\ n <= Len(after)
        /\ out.returned = [i \in 1..n |-> after[i].id]
        /\ \A l \in args.limit : n <= l /\ n <= MaxLimit
        /\ out.hasMore <=> (n < Len(after))

(* C29: handleMessageEvent never changes the status, completedAt or error
   of a delegation, nor the pending sets, and sends no notification. On a
   running delegation it changes nothing but the progress of that
   delegation; on an unknown session or on a delegation that is not
   running it changes nothing at all. *)
MessageEventOnlyTouchesProgress ==
  [][ ret'.op = "handleMessageEvent"
      => /\ pendingByParent' = pendingByParent
         /\ note' = NoNote /\ sent' = sent
         /\ UNCHANGED << calls, timers, prompts, nextSession, resumes >>
         /\ DOMAIN delegations' = DOMAIN delegations
         /\ \A id \in Known :
              /\ delegations'[id].status = delegations[id].status
              /\ delegations'[id].completedAt = delegations[id].completedAt
              /\ delegations'[id].error = delegations[id].error
              /\ [delegations'[id] EXCEPT !.progress = delegations[id].progress]
                   = delegations[id]
              /\ delegations'[id] # delegations[id]
                 => id = ret'.id /\ Running(id)
         /\ ret'.was # "running" => delegations' = delegations ]_vars

(* a message event has left its text on a delegation that runs again
   after a resume *)
MessageEventRecorded ==
  /\ ret.op = "handleMessageEvent" /\ ret.result = "updated"
  /\ Running(ret.id)
  /\ delegations[ret.id].startedAt = 1
  /\ delegations[ret.id].progress = [lastUpdate |-> "event",
                                     lastMessage |-> {"working"}]

(* C30: no operation deletes a parent's entry of the pending index: the key
   set of the index only grows, every parent that has a delegation on
   record has an entry, and the entry of a parent whose delegations have
   all left running, with no handler of theirs still in progress, is the
   empty set. *)
PendingKeysOnlyGrow ==
  [][ /\ DOMAIN pendingByParent \subseteq DOMAIN pendingByParent'
      /\ \A id \in DOMAIN delegations' :
           delegations'[id].parentSessionID \in DOMAIN pendingByParent'
      /\ \A p \in DOMAIN pendingByParent' :
           (\A id \in DOMAIN delegations' :
              delegations'[id].parentSessionID = p
              => /\ delegations'[id].status # "running"
                 /\ \A c \in BagToSet(calls') : c.id # id)
           => pendingByParent'[p] = {} ]_vars

(* the only delegation of p1 has been reported and nothing is in flight:
   the entry of p1 is there, empty *)
EmptyEntryKept ==
  /\ "p1" \in DOMAIN pendingByParent
  /\ pendingByParent["p1"] = {}
  /\ Known # {} /\ \A id \in Known : ~Running(id)
  /\ note.id \in Known /\ note.allComplete
  /\ calls = EmptyBag

(* C31 as stated: a watchdog times out only the run it was armed for: when
   the callback of a timer enters handleTimeout, the run the delegation is
   in is the run the timer was armed in, and so is the run that handleTimeout
   then marks as timed out (the run started by delegate(), the only one a
   watchdog is armed for). *)
WatchdogTimesOutOwnRun ==
  [][ /\ (ret'.op = "handleTimeout" /\ ret'.result = "entered")
         => \A t \in timers \ timers' :
              t.id = ret'.id => t.startedAt = delegations[t.id].startedAt
      /\ \A id \in Known :
           (delegations[id].status # "timeout"
              /\ delegations'[id].status = "timeout")
           => delegations'[id].startedAt = 0 ]_vars

(* C32 as stated: in every reachable state each delegation whose status is
   running is a member of the pending set of its parent. *)
RunningIsPending ==
  \A id \in Known :
    Running(id)
    => /\ ParentOf(id) \in DOMAIN pendingByParent
       /\ id \in pendingByParent[ParentOf(id)]

(* C33 as stated: whenever an "all complete" digest is sent to a parent, no
   delegation of that parent has status running, and the delegation that
   triggered the digest is not running. *)
DigestMeansNoneRunning ==
  (note # NoNote /\ note.allComplete)
  => /\ RunningOf(note) = {}
     /\ note.status # "running"
     /\ ~Running(note.id)

(* C34 as stated: each run of a delegation causes at most one parent
   notification. Without resume every delegation has one run, so no two
   notifications sent are for the same delegation. *)
OneNotificationPerRun ==
  \A i, j \in 1..Len(sent) : sent[i].id = sent[j].id => i = j

(* C35 as stated: a rejection of a prompt affects only the run that
   dispatched it: when the prompt of an earlier run rejects while a later
   run of the delegation is running, the delegation stays running. *)
LateRejectionLeavesLaterRun ==
  [][ \A p \in BagToSet(prompts) :
        (/\ ret'.op \in {"delegate.catch", "resume.catch"}
         /\ ret'.id = p.id
         /\ prompts' = prompts (-) One(p)
         /\ Running(p.id)
         /\ p.startedAt < delegations[p.id].startedAt)
        => delegations'[p.id] = delegations[p.id] ]_vars

(* the notifications sent so far that report id as cancelled *)
CancelNotices(id) ==
  {i \in 1..Len(sent) : sent[i].id = id /\ sent[i].status = "cancelled"}

(* C36: of two cancel(id) calls for the same running delegation, the second
   entered while the first awaits the remote abort, one returns true and the
   other false, and one cancellation notification is sent: at most one
   cancel() per delegation is ever past its status check, a cancel() that
   arrives while another awaits its abort returns false and sends nothing,
   and the return of true comes with the one notification. *)
SecondCancelLoses ==
  /\ [](\A id \in Known :
          Aborting(calls, id) + Cardinality(CancelNotices(id)) <= 1)
  /\ [][ (ret'.op = "cancel" /\ Aborting(calls, ret'.id) = 1 /\ calls' = calls)
         => /\ ret'.result = "false"
            /\ sent' = sent /\ note' = NoNote
            /\ delegations' = delegations
            /\ pendingByParent' = pendingByParent ]_vars
  /\ [][ (ret'.op = "cancel" /\ ret'.result = "true")
         => /\ Aborting(calls, ret'.id) = 1
            /\ Aborting(calls', ret'.id) = 0
            /\ sent' = Append(sent, note')
            /\ note'.id = ret'.id /\ note'.status = "cancelled" ]_vars

(* delegate() has returned, the first cancel() awaits its abort, nothing
   has been sent, and a second cancel() has just returned false *)
SecondCancelRefused ==
  /\ ret.op = "cancel" /\ ret.result = "false" /\ ret.was = "cancelled"
  /\ Aborting(calls, ret.id) = 1
  /\ BagCardinality(calls) = 1
  /\ sent = << >>

(* C37 as stated: in every reachable state the error field of a delegation
   is set if and only if its status is error or timeout. *)
ErrorIffFailed ==
  \A id \in Known :
    (delegations[id].error # {})
    <=> delegations[id].status \in {"error", "timeout"}

(* C38: delegations of different parents are independent: every step of
   cancel, cancelAll, resume, handleTimeout, handleSessionIdle and of a
   prompt rejection concerns one parent p (the parent of the delegation it
   is about, or the argument of cancelAll); it changes delegations of p
   only, leaves the pending set of every other parent as it is, and a
   notification it sends goes into session p. *)
ParentsIndependent ==
  [][ \E p \in TwoParents :
        /\ \A id \in Known :
             delegations'[id] # delegations[id]
             => delegations[id].parentSessionID = p
        /\ \A q \in DOMAIN pendingByParent :
             q # p => /\ q \in DOMAIN pendingByParent'
                      /\ pendingByParent'[q] = pendingByParent[q]
        /\ note' # NoNote => note'.parent = p
        /\ ret'.op = "cancelAll" => ret'.arg.parent = p
        /\ \A c \in InFlight :
             (c.op = "cancelAll" /\ c \notin BagToSet(calls')) => c.parent = p
        /\ (ret'.op \notin {"none", "cancelAll"} /\ ret'.id \in Known)
           => delegations[ret'.id].parentSessionID = p ]_vars

(* the only delegation of p2 has been reported in a digest while a
   delegation of p1 is running and pending *)
DigestForOneParentOnly ==
  /\ note # NoNote /\ note.parent = "p2" /\ note.allComplete
  /\ \E id \in Known :
       /\ delegations[id].parentSessionID = "p1" /\ Running(id)
       /\ id \in pendingByParent["p1"]

(* the operations that only look at the state of the manager *)
ReadOnlyOps ==
  {"readDelegation", "listDelegations", "listAllDelegations",
   "getPendingCount", "getRunningDelegations", "findBySession"}

(* C39: readDelegation, listDelegations, listAllDelegations,
   getPendingCount, getRunningDelegations and findBySession change nothing
   the manager holds: for every id, mode and status, no delegation and no
   pending set changes, no record or session is added, no watchdog is
   armed or cleared, no prompt is sent into a delegation session and no
   notification into a parent session. *)
GettersChangeNothing ==
  [][ ret'.op \in ReadOnlyOps
      => /\ UNCHANGED << delegations, pendingByParent, calls, timers, prompts,
                         nextSession, resumes, sent >>
         /\ note' = NoNote ]_vars

(* a running delegation, its watchdog armed and its prompt outstanding, has
   been read *)
RunningDelegationRead ==
  /\ ret.op = "readDelegation" /\ ret.was = "running"
  /\ Running(ret.id)
  /\ timers # {} /\ prompts # EmptyBag
  /\ ret.id \in pendingByParent["p1"]
====
